---- MODULE Spec2Model ----
(***************************************************************************)
(* Segmentation pipeline of the Shakespeare ingestion script:              *)
(* processShakespeareText (a fold over the lines of the input text),       *)
(* splitLargeChunk, cleanChunks and the helpers they call.                 *)
(*                                                                         *)
(* A JavaScript string is a sequence of one-character strings, so that     *)
(* trim, split, includes, startsWith and the regular expressions act on    *)
(* characters as the code's do.  null is the value  null  below.           *)
(***************************************************************************)
EXTENDS Integers, Sequences, FiniteSets, TLC

(* ----------------------------- bounds --------------------------------- *)
\* Number of input lines a run reads before the end of the input.
MaxLines == 4
\* Number of input lines of a text of long speeches.
MaxSpeechLines == 5
\* Number of input lines of a text given to one of several calls.
MaxCallLines == 3
\* Number of input lines of a text of two works.
MaxSceneLines == 5
\* the POST /api/reset requests in flight together
MaxRequests == 2
\* the chunks in the last, partial batch of an upsert loop
ExtraChunks == 1
\* by how much the topK of a request exceeds the largest one passed on
MoreThanMax == 2
MaxWindows == 2

(* --------------------------- characters ------------------------------- *)
null == <<"null">>

Upper ==
  {"A","B","C","D","E","F","G","H","I","J","K","L","M",
   "N","O","P","Q","R","S","T","U","V","W","X","Y","Z"}
Lower ==
  {"a","b","c","d","e","f","g","h","i","j","k","l","m",
   "n","o","p","q","r","s","t","u","v","w","x","y","z"}
Digit == {"0","1","2","3","4","5","6","7","8","9"}
\* \s of a regular expression and the characters String.prototype.trim removes,
\* among the characters the texts below are made of
WS == {" ", "\t", "\n", "\r"}

\* a JavaScript value used as a condition: null and "" are falsy
Truthy(v) == v # null /\ v # <<>>

\* String(v) inside a template literal
Str(v) == IF v = null THEN <<"n","u","l","l">> ELSE v

RECURSIVE TrimEnd(_)
TrimEnd(s) ==
  IF s = <<>> \/ s[Len(s)] \notin WS THEN s ELSE TrimEnd(SubSeq(s, 1, Len(s) - 1))

RECURSIVE TrimStart(_)
TrimStart(s) ==
  IF s = <<>> \/ s[1] \notin WS THEN s ELSE TrimStart(Tail(s))

\* String.prototype.trim
Trim(s) == TrimStart(TrimEnd(s))

\* String.prototype.startsWith, and a regular expression /^p/ of plain characters
StartsWith(s, p) == Len(s) >= Len(p) /\ SubSeq(s, 1, Len(p)) = p

\* String.prototype.includes
Includes(s, p) == \E i \in 1..(Len(s) - Len(p) + 1) : SubSeq(s, i, i + Len(p) - 1) = p

\* every character of s[a..b] is in the class cls
AllIn(s, a, b, cls) == \A j \in a..b : s[j] \in cls

DigitChar(d) == <<"0","1","2","3","4","5","6","7","8","9">>[d + 1]

\* Number.prototype.toString of a non-negative integer
RECURSIVE NatToStr(_)
NatToStr(n) == IF n < 10 THEN <<DigitChar(n)>> ELSE NatToStr(n \div 10) \o <<DigitChar(n % 10)>>

Min(S) == CHOOSE x \in S : \A y \in S : x <= y

\* the last index of the run of characters of cls that starts at i (i - 1 if none)
RunEnd(s, i, cls) ==
  LET stops == {j \in i..Len(s) : s[j] \notin cls}
  IN  IF stops = {} THEN Len(s) ELSE Min(stops) - 1

(* ----------------------------- catalog -------------------------------- *)
shakespeareWorks ==
  << <<"T","H","E"," ","S","O","N","N","E","T","S">>,
     <<"A","L","L","'","S"," ","W","E","L","L"," ","T","H","A","T"," ","E","N","D","S"," ","W","E","L","L">>,
     <<"T","H","E"," ","T","R","A","G","E","D","Y"," ","O","F"," ","A","N","T","O","N","Y"," ","A","N","D"," ","C","L","E","O","P","A","T","R","A">>,
     <<"A","S"," ","Y","O","U"," ","L","I","K","E"," ","I","T">>,
     <<"T","H","E"," ","C","O","M","E","D","Y"," ","O","F"," ","E","R","R","O","R","S">>,
     <<"T","H","E"," ","T","R","A","G","E","D","Y"," ","O","F"," ","C","O","R","I","O","L","A","N","U","S">>,
     <<"C","Y","M","B","E","L","I","N","E">>,
     <<"T","H","E"," ","T","R","A","G","E","D","Y"," ","O","F"," ","H","A","M","L","E","T",","," ","P","R","I","N","C","E"," ","O","F"," ","D","E","N","M","A","R","K">>,
     <<"T","H","E"," ","F","I","R","S","T"," ","P","A","R","T"," ","O","F"," ","K","I","N","G"," ","H","E","N","R","Y"," ","T","H","E"," ","F","O","U","R","T","H">>,
     <<"T","H","E"," ","S","E","C","O","N","D"," ","P","A","R","T"," ","O","F"," ","K","I","N","G"," ","H","E","N","R","Y"," ","T","H","E"," ","F","O","U","R","T","H">>,
     <<"T","H","E"," ","L","I","F","E"," ","O","F"," ","K","I","N","G"," ","H","E","N","R","Y"," ","T","H","E"," ","F","I","F","T","H">>,
     <<"T","H","E"," ","F","I","R","S","T"," ","P","A","R","T"," ","O","F"," ","H","E","N","R","Y"," ","T","H","E"," ","S","I","X","T","H">>,
     <<"T","H","E"," ","S","E","C","O","N","D"," ","P","A","R","T"," ","O","F"," ","K","I","N","G"," ","H","E","N","R","Y"," ","T","H","E"," ","S","I","X","T","H">>,
     <<"T","H","E"," ","T","H","I","R","D"," ","P","A","R","T"," ","O","F"," ","K","I","N","G"," ","H","E","N","R","Y"," ","T","H","E"," ","S","I","X","T","H">>,
     <<"K","I","N","G"," ","H","E","N","R","Y"," ","T","H","E"," ","E","I","G","H","T","H">>,
     <<"T","H","E"," ","L","I","F","E"," ","A","N","D"," ","D","E","A","T","H"," ","O","F"," ","K","I","N","G"," ","J","O","H","N">>,
     <<"T","H","E"," ","T","R","A","G","E","D","Y"," ","O","F"," ","J","U","L","I","U","S"," ","C","A","E","S","A","R">>,
     <<"T","H","E"," ","T","R","A","G","E","D","Y"," ","O","F"," ","K","I","N","G"," ","L","E","A","R">>,
     <<"L","O","V","E","'","S"," ","L","A","B","O","U","R","'","S"," ","L","O","S","T">>,
     <<"T","H","E"," ","T","R","A","G","E","D","Y"," ","O","F"," ","M","A","C","B","E","T","H">>,
     <<"M","E","A","S","U","R","E"," ","F","O","R"," ","M","E","A","S","U","R","E">>,
     <<"T","H","E"," ","M","E","R","C","H","A","N","T"," ","O","F"," ","V","E","N","I","C","E">>,
     <<"T","H","E"," ","M","E","R","R","Y"," ","W","I","V","E","S"," ","O","F"," ","W","I","N","D","S","O","R">>,
     <<"A"," ","M","I","D","S","U","M","M","E","R"," ","N","I","G","H","T","'","S"," ","D","R","E","A","M">>,
     <<"M","U","C","H"," ","A","D","O"," ","A","B","O","U","T"," ","N","O","T","H","I","N","G">>,
     <<"T","H","E"," ","T","R","A","G","E","D","Y"," ","O","F"," ","O","T","H","E","L","L","O",","," ","T","H","E"," ","M","O","O","R"," ","O","F"," ","V","E","N","I","C","E">>,
     <<"P","E","R","I","C","L","E","S",","," ","P","R","I","N","C","E"," ","O","F"," ","T","Y","R","E">>,
     <<"K","I","N","G"," ","R","I","C","H","A","R","D"," ","T","H","E"," ","S","E","C","O","N","D">>,
     <<"K","I","N","G"," ","R","I","C","H","A","R","D"," ","T","H","E"," ","T","H","I","R","D">>,
     <<"T","H","E"," ","T","R","A","G","E","D","Y"," ","O","F"," ","R","O","M","E","O"," ","A","N","D"," ","J","U","L","I","E","T">>,
     <<"T","H","E"," ","T","A","M","I","N","G"," ","O","F"," ","T","H","E"," ","S","H","R","E","W">>,
     <<"T","H","E"," ","T","E","M","P","E","S","T">>,
     <<"T","H","E"," ","L","I","F","E"," ","O","F"," ","T","I","M","O","N"," ","O","F"," ","A","T","H","E","N","S">>,
     <<"T","H","E"," ","T","R","A","G","E","D","Y"," ","O","F"," ","T","I","T","U","S"," ","A","N","D","R","O","N","I","C","U","S">>,
     <<"T","R","O","I","L","U","S"," ","A","N","D"," ","C","R","E","S","S","I","D","A">>,
     <<"T","W","E","L","F","T","H"," ","N","I","G","H","T",";"," ","O","R",","," ","W","H","A","T"," ","Y","O","U"," ","W","I","L","L">>,
     <<"T","H","E"," ","T","W","O"," ","G","E","N","T","L","E","M","E","N"," ","O","F"," ","V","E","R","O","N","A">>,
     <<"T","H","E"," ","T","W","O"," ","N","O","B","L","E"," ","K","I","N","S","M","E","N">>,
     <<"T","H","E"," ","W","I","N","T","E","R","'","S"," ","T","A","L","E">>,
     <<"A"," ","L","O","V","E","R","'","S"," ","C","O","M","P","L","A","I","N","T">>,
     <<"T","H","E"," ","P","A","S","S","I","O","N","A","T","E"," ","P","I","L","G","R","I","M">>,
     <<"T","H","E"," ","P","H","O","E","N","I","X"," ","A","N","D"," ","T","H","E"," ","T","U","R","T","L","E">>,
     <<"T","H","E"," ","R","A","P","E"," ","O","F"," ","L","U","C","R","E","C","E">>,
     <<"V","E","N","U","S"," ","A","N","D"," ","A","D","O","N","I","S">> >>

THE_SONNETS == shakespeareWorks[1]
UNKNOWN == <<"U","N","K","N","O","W","N">>

\* shakespeareWorks.find(work => trimmedLine === work || trimmedLine.includes(work))
\* mutant of workMatch: a line is a title only if it equals one
workMatchExact(trimmedLine) ==
  LET hit == {w \in DOMAIN shakespeareWorks : trimmedLine = shakespeareWorks[w]}
  IN  IF hit = {} THEN null ELSE shakespeareWorks[Min(hit)]

workMatch(trimmedLine) ==
  LET hit == {w \in DOMAIN shakespeareWorks :
                trimmedLine = shakespeareWorks[w] \/ Includes(trimmedLine, shakespeareWorks[w])}
  IN  IF hit = {} THEN null ELSE shakespeareWorks[Min(hit)]

(* -------------------------- line classifier --------------------------- *)
nonSpeakers ==
  << <<"A","C","T">>,
     <<"S","C","E","N","E">>,
     <<"E","P","I","L","O","G","U","E">>,
     <<"P","R","O","L","O","G","U","E">>,
     <<"C","H","O","R","U","S">>,
     <<"C","O","N","T","E","N","T","S">>,
     <<"T","H","E"," ","E","N","D">>,
     <<"F","I","N","I","S">>,
     <<"D","R","A","M","A","T","I","S"," ","P","E","R","S","O","N","A","E">>,
     <<"P","E","R","S","O","N","S"," ","R","E","P","R","E","S","E","N","T","E","D">>,
     <<"I","N","D","U","C","T","I","O","N">>,
     <<"A","R","G","U","M","E","N","T">>,
     <<"E","N","T","E","R">>,
     <<"E","X","I","T">>,
     <<"E","X","E","U","N","T">>,
     <<"A","L","A","R","U","M">>,
     <<"F","L","O","U","R","I","S","H">>,
     <<"S","E","N","N","E","T">>,
     <<"H","A","U","T","B","O","Y","S">>,
     <<"T","R","U","M","P","E","T","S">>,
     <<"D","R","U","M","S">>,
     <<"S","C","E","N","E"," ","I">>,
     <<"S","C","E","N","E"," ","I","I">>,
     <<"S","C","E","N","E"," ","I","I","I">>,
     <<"S","C","E","N","E"," ","I","V">>,
     <<"S","C","E","N","E"," ","V">>,
     <<"A","C","T"," ","I">>,
     <<"A","C","T"," ","I","I">>,
     <<"A","C","T"," ","I","I","I">>,
     <<"A","C","T"," ","I","V">>,
     <<"A","C","T"," ","V">> >>

\* the alternatives of /^(ACT|SCENE|EPILOGUE|PROLOGUE|ENTER|EXIT|EXEUNT)/
speakerMarkers ==
  { <<"A","C","T">>, <<"S","C","E","N","E">>, <<"E","P","I","L","O","G","U","E">>, <<"P","R","O","L","O","G","U","E">>,
    <<"E","N","T","E","R">>, <<"E","X","I","T">>, <<"E","X","E","U","N","T">> }

\* the alternatives of /^(ACT|SCENE|EPILOGUE|PROLOGUE|ENTER|EXIT|EXEUNT|ALARUM|FLOURISH)/
stageMarkers ==
  speakerMarkers \cup { <<"A","L","A","R","U","M">>, <<"F","L","O","U","R","I","S","H">> }

\* the character class [A-Z\s,'.-] of speakerPattern
speakerClass == Upper \cup WS \cup {",", "'", ".", "-"}

\* the rest of the line after group 1 of speakerPattern:  \.?\s*$
speakerTail(t, k) ==
  \/ AllIn(t, k + 1, Len(t), WS)
  \/ k + 1 <= Len(t) /\ t[k + 1] = "." /\ AllIn(t, k + 2, Len(t), WS)

\* group 1 of /^([A-Z][A-Z\s,'.-]+?)\.?\s*$/ : the shortest prefix that lets the
\* rest match, or null when the line does not match
speakerPattern(t) ==
  LET ks == {k \in 2..Len(t) : t[1] \in Upper /\ AllIn(t, 2, k, speakerClass) /\ speakerTail(t, k)}
  IN  IF ks = {} THEN null ELSE SubSeq(t, 1, Min(ks))

isValidSpeaker(speaker) ==
  /\ Len(speaker) > 1
  /\ Len(speaker) < 50
  /\ ~ \E n \in DOMAIN nonSpeakers : StartsWith(speaker, nonSpeakers[n])
  /\ ~ \E m \in speakerMarkers : StartsWith(speaker, m)
  /\ ~ (Len(speaker) >= 1 /\ AllIn(speaker, 1, Len(speaker), Digit))
  /\ ~ Includes(speaker, <<"S","C","E","N","E">>)
  /\ ~ Includes(speaker, <<"C","o","n","t","e","n","t","s">>)
  /\ ~ (Len(speaker) >= 1 /\ AllIn(speaker, 1, Len(speaker), {"I", "V", "X"}))

\* speaker.replace(/\.$/, '')
stripPeriod(s) == IF s # <<>> /\ s[Len(s)] = "." THEN SubSeq(s, 1, Len(s) - 1) ELSE s

\* mutant of isSpeakerLine: every line that matches the pattern is a speaker cue
isSpeakerLineUnfiltered(line) ==
  LET match == speakerPattern(Trim(line))
  IN  IF match = null THEN null ELSE stripPeriod(Trim(match))

isSpeakerLine(line) ==
  LET match == speakerPattern(Trim(line))
  IN  IF match = null THEN null
      ELSE LET speaker == Trim(match)
           IN  IF isValidSpeaker(speaker) THEN stripPeriod(speaker) ELSE null

\* /^\\s*([0-9]+)\\s*$/ as written: a backslash, any number of the letter s, the
\* digits of group 1, a backslash, any number of the letter s.  The result is
\* group 1, or null when the line does not match.
sonnetPattern(t) ==
  IF Len(t) < 1 \/ t[1] # "\\" THEN null
  ELSE LET a == RunEnd(t, 2, {"s"}) + 1
           b == RunEnd(t, a, Digit)
       IN  IF /\ b >= a
              /\ b + 1 <= Len(t) /\ t[b + 1] = "\\"
              /\ AllIn(t, b + 2, Len(t), {"s"})
           THEN SubSeq(t, a, b) ELSE null

isSonnetNumber(line) == sonnetPattern(Trim(line))

\* /^(ACT|SCENE|EPILOGUE|PROLOGUE|ENTER|EXIT|EXEUNT|ALARUM|FLOURISH)/
isStageMarker(t) == \E m \in stageMarkers : StartsWith(t, m)

\* /^\[.*\]$/ on a single line
isBracketed(t) ==
  /\ Len(t) >= 2 /\ t[1] = "[" /\ t[Len(t)] = "]"
  /\ \A j \in 2..(Len(t) - 1) : t[j] \notin {"\n", "\r"}

(* --------------------------- chunk splitter --------------------------- *)
maxSize == 800

\* text.split(/(?<=[.!?])\s+/): a separator is a maximal run of whitespace that
\* directly follows one of . ! ?
RECURSIVE splitSentences(_)
splitSentences(text) ==
  LET br == {i \in 2..Len(text) : text[i] \in WS /\ text[i - 1] \in {".", "!", "?"}}
  IN  IF br = {} THEN <<text>>
      ELSE LET i == Min(br)
               e == RunEnd(text, i, WS)
           IN  <<SubSeq(text, 1, i - 1)>> \o splitSentences(SubSeq(text, e + 1, Len(text)))

\* mutant of partLabel: the parts are numbered from 0
partLabelFromZero(speaker, partIndex) ==
  speaker \o <<" ","(","P","a","r","t"," ">> \o NatToStr(partIndex - 1) \o <<")">>

\* `${chunk.speaker} (Part ${partIndex})`
partLabel(speaker, partIndex) ==
  speaker \o <<" ","(","P","a","r","t"," ">> \o NatToStr(partIndex) \o <<")">>

\* mutant of splitStep: the size test leaves out the sentence to be added
splitStepLateSeal(chunk, max, st, sentence) ==
  IF Len(st.currentText) > max /\ Len(st.currentText) > 0
  THEN [chunks |-> Append(st.chunks,
                     [chunk EXCEPT !.text = Trim(st.currentText),
                                   !.speaker = IF Truthy(chunk.speaker)
                                               THEN partLabel(chunk.speaker, st.partIndex)
                                               ELSE chunk.speaker]),
        currentText |-> sentence \o <<" ">>,
        partIndex |-> st.partIndex + 1]
  ELSE [st EXCEPT !.currentText = st.currentText \o sentence \o <<" ">>]

\* mutant of splitStep: the sentence that seals a part is not carried into the next
splitStepDropsSentence(chunk, max, st, sentence) ==
  IF Len(st.currentText) + Len(sentence) > max /\ Len(st.currentText) > 0
  THEN [chunks |-> Append(st.chunks,
                     [chunk EXCEPT !.text = Trim(st.currentText),
                                   !.speaker = IF Truthy(chunk.speaker)
                                               THEN partLabel(chunk.speaker, st.partIndex)
                                               ELSE chunk.speaker]),
        currentText |-> <<>>,
        partIndex |-> st.partIndex + 1]
  ELSE [st EXCEPT !.currentText = st.currentText \o sentence \o <<" ">>]

\* one iteration of the loop over the sentences; st is [chunks, currentText, partIndex]
splitStep(chunk, max, st, sentence) ==
  IF Len(st.currentText) + Len(sentence) > max /\ Len(st.currentText) > 0
  THEN [chunks |-> Append(st.chunks,
                     [chunk EXCEPT !.text = Trim(st.currentText),
                                   !.speaker = IF Truthy(chunk.speaker)
                                               THEN partLabel(chunk.speaker, st.partIndex)
                                               ELSE chunk.speaker]),
        currentText |-> sentence \o <<" ">>,
        partIndex |-> st.partIndex + 1]
  ELSE [st EXCEPT !.currentText = st.currentText \o sentence \o <<" ">>]

RECURSIVE splitLoop(_, _, _, _)
splitLoop(chunk, max, sentences, n) ==
  IF n = 0 THEN [chunks |-> <<>>, currentText |-> <<>>, partIndex |-> 1]
  ELSE splitStep(chunk, max, splitLoop(chunk, max, sentences, n - 1), sentences[n])

\* the final chunk, added after the loop
splitFinal(chunk, st) ==
  IF Trim(st.currentText) # <<>>
  THEN Append(st.chunks,
         [chunk EXCEPT !.text = Trim(st.currentText),
                       !.speaker = IF Truthy(chunk.speaker) /\ st.partIndex > 1
                                   THEN partLabel(chunk.speaker, st.partIndex)
                                   ELSE chunk.speaker])
  ELSE st.chunks

\* mutant of splitLargeChunk: a text of exactly max characters is split too
splitLargeChunkStrict(chunk, max) ==
  IF Len(chunk.text) < max THEN <<chunk>>
  ELSE LET sentences == splitSentences(chunk.text)
       IN  splitFinal(chunk, splitLoop(chunk, max, sentences, Len(sentences)))

splitLargeChunk(chunk, max) ==
  IF Len(chunk.text) <= max THEN <<chunk>>
  ELSE LET sentences == splitSentences(chunk.text)
       IN  splitFinal(chunk, splitLoop(chunk, max, sentences, Len(sentences)))


(* ------------------------------ cleaner ------------------------------- *)
\* the last index of the run of characters outside cls that starts at i
RunEndNot(s, i, cls) ==
  LET stops == {j \in i..Len(s) : s[j] \in cls}
  IN  IF stops = {} THEN Len(s) ELSE Min(stops) - 1

\* mutant of countWords: every token counts, with or without a letter or digit
countWordsAllTokens(text) ==
  IF ~Truthy(text) THEN 0
  ELSE LET t == Trim(text)
       IN  Cardinality({i \in 1..Len(t) : t[i] \notin WS /\ (i = 1 \/ t[i - 1] \in WS)})

\* text.trim().replace(/\s+/g, ' ').split(/\s+/) gives the maximal runs of
\* non-whitespace characters; the filter keeps those with a letter or a digit
countWords(text) ==
  IF ~Truthy(text) THEN 0
  ELSE LET t == Trim(text)
           starts == {i \in 1..Len(t) : t[i] \notin WS /\ (i = 1 \/ t[i - 1] \in WS)}
       IN  Cardinality({i \in starts :
             \E j \in i..RunEndNot(t, i, WS) : t[j] \in Upper \cup Lower \cup Digit})

\* /^\\s*\\[.*\\]\\s*$/ as written: a backslash, any number of the letter s, a
\* backslash, one character of the class [.*\\], a backslash, any number of the
\* letter s
stageDirectionPattern(text) ==
  /\ Len(text) >= 4 /\ text[1] = "\\"
  /\ LET a == RunEnd(text, 2, {"s"}) + 1
     IN  /\ a + 2 <= Len(text)
         /\ text[a] = "\\"
         /\ text[a + 1] \in {".", "*", "\\"}
         /\ text[a + 2] = "\\"
         /\ AllIn(text, a + 3, Len(text), {"s"})

\* /^(ACT|SCENE|EPILOGUE|PROLOGUE)/
sceneHeaderPattern(text) ==
  \E m \in {<<"A","C","T">>, <<"S","C","E","N","E">>,
            <<"E","P","I","L","O","G","U","E">>, <<"P","R","O","L","O","G","U","E">>} :
     StartsWith(text, m)

\* /^\\s*[\\.,;:!?-]*\\s*$/ as written: a backslash, any number of the letter s,
\* any number of characters of the class [\\.,;:!?-], a backslash, any number of
\* the letter s
punctuationPattern(text) ==
  /\ Len(text) >= 2 /\ text[1] = "\\"
  /\ LET a == RunEnd(text, 2, {"s"}) + 1
     IN  \E b \in a..Len(text) :
            /\ text[b] = "\\"
            /\ AllIn(text, a, b - 1, {"\\", ".", ",", ";", ":", "!", "?", "-"})
            /\ AllIn(text, b + 1, Len(text), {"s"})

\* /^\\s*[0-9IVXivx]+\\s*$/ as written: a backslash, any number of the letter s,
\* one or more of 0-9 I V X i v x, a backslash, any number of the letter s
numeralPattern(text) ==
  /\ Len(text) >= 3 /\ text[1] = "\\"
  /\ LET a == RunEnd(text, 2, {"s"}) + 1
         b == RunEnd(text, a, Digit \cup {"I", "V", "X", "i", "v", "x"})
     IN  /\ b >= a
         /\ b + 1 <= Len(text) /\ text[b + 1] = "\\"
         /\ AllIn(text, b + 2, Len(text), {"s"})

\* mutant of keepChunk: the length test is left out
keepChunkAnyLength(chunk) ==
  /\ ~ stageDirectionPattern(chunk.text)
  /\ ~ sceneHeaderPattern(chunk.text)
  /\ ~ punctuationPattern(chunk.text)
  /\ ~ numeralPattern(chunk.text)

\* the callback of chunks.filter: TRUE for a chunk that is kept
keepChunk(chunk) ==
  /\ ~ (Len(chunk.text) < 10)
  /\ ~ stageDirectionPattern(chunk.text)
  /\ ~ sceneHeaderPattern(chunk.text)
  /\ ~ punctuationPattern(chunk.text)
  /\ ~ numeralPattern(chunk.text)

\* mutant of finalChunk: the chunk keeps the id it had before filtering
finalChunkKeepsId(chunk, index) ==
  [id |-> chunk.id, work |-> chunk.work, speaker |-> chunk.speaker, text |-> chunk.text,
   textLength |-> Len(chunk.text), wordCount |-> countWords(chunk.text)]

\* the callback of .map: the chunk with its final id and its metrics
finalChunk(chunk, index) ==
  [id |-> index, work |-> chunk.work, speaker |-> chunk.speaker, text |-> chunk.text,
   textLength |-> Len(chunk.text), wordCount |-> countWords(chunk.text)]

cleanChunks(cs) ==
  LET kept == SelectSeq(cs, keepChunk)
  IN  [j \in 1..Len(kept) |-> finalChunk(kept[j], j - 1)]

(* ------------------------------- input -------------------------------- *)
\* a sentence of n characters: n - 1 letters and the closing mark
Sentence(n, mark) == [i \in 1..n |-> IF i = n THEN mark ELSE "a"]

\* the lines input texts are made of
Lines ==
  << <<>>,
     <<"H","A","M","L","E","T",".">>,
     <<"T","H","E"," ","T","E","M","P","E","S","T">>,
     <<"T","H","E"," ","S","O","N","N","E","T","S">>,
     <<"1","8">>,
     <<"\\","1","8","\\">>,
     <<"A","C","T"," ","I">>,
     <<"[","E","x","e","u","n","t"," ","a","l","l","]">>,
     <<"T","o"," ","b","e",","," ","o","r"," ","n","o","t"," ","t","o"," ","b","e",".">>,
     <<" "," ","A","y",".">>,
     Sentence(400, "."),
     Sentence(399, "."),
     Sentence(801, "!"),
     <<"G","o","."," "," ","N","o","w">>,
     <<"!","?","!","?","!","?","!","?","!","?","!","?">>,
     <<"1","6","0","4","1","6","1","1","1","6">>,
     <<"O","f"," ","T","H","E"," ","T","E","M","P","E","S","T",".">>,
     <<"V",".">> >>

\* texts of plays and sonnets, of short lines
PlayCorpus == (1..10) \cup {17}
\* texts of one play with headings and numerals among the cues
CueCorpus == {2, 7, 9, 18}
\* texts of one or two works, for calls that follow or interleave one another
CallCorpus == {2, 3, 9}
\* texts of sonnets and speeches of long lines
SonnetCorpus == {2, 3, 4, 6, 11}
\* texts of two works, with lines of punctuation and of digits
SceneCorpus == {1, 2, 3, 9, 10, 15, 16}
\* texts of one play, of long speeches
SpeechCorpus == {2, 11, 12, 13, 14}

\* what the loop body computes of a line before it branches
trimmedOf == [k \in DOMAIN Lines |-> Trim(Lines[k])]
workMatchOf == [k \in DOMAIN Lines |-> workMatch(trimmedOf[k])]
sonnetMatchOf == [k \in DOMAIN Lines |-> isSonnetNumber(trimmedOf[k])]
speakerOf == [k \in DOMAIN Lines |-> isSpeakerLine(trimmedOf[k])]
stageOf == [k \in DOMAIN Lines |-> isStageMarker(trimmedOf[k]) \/ isBracketed(trimmedOf[k])]

(* ------------------------------- state -------------------------------- *)
\* Math.round(total / count) of two naturals; 0 / 0 is NaN
NaN == <<"NaN">>

roundedMean(total, count) ==
  IF count = 0 THEN NaN ELSE (2 * total + count) \div (2 * count)

\* totalTextLength, totalWordCount: the sum of a field over the chunks
RECURSIVE total(_, _)
total(cs, field) ==
  IF cs = <<>> THEN 0 ELSE cs[1][field] + total(Tail(cs), field)

\* stats.works after the forEach: the count of chunks per work
worksOf(cs) ==
  [key \in {cs[j].work : j \in DOMAIN cs} |->
     Cardinality({j \in DOMAIN cs : cs[j].work = key})]

\* stats.speakers after the forEach: the count of chunks per speaker, of the
\* chunks that have one
speakersOf(cs) ==
  [key \in {cs[j].speaker : j \in {i \in DOMAIN cs : Truthy(cs[i].speaker)}} |->
     Cardinality({j \in DOMAIN cs : cs[j].speaker = key})]

\* mutant of computeStats: the first chunk of a work sets its count to 0 and is
\* not counted
computeStatsFirstUncounted(cs) ==
  [totalChunks |-> Len(cs),
   works |-> [key \in DOMAIN worksOf(cs) |-> worksOf(cs)[key] - 1],
   speakers |-> speakersOf(cs),
   avgTextLength |-> roundedMean(total(cs, "textLength"), Len(cs)),
   avgWordCount |-> roundedMean(total(cs, "wordCount"), Len(cs))]

\* main: the stats object of the cleaned chunks
computeStats(cs) ==
  [totalChunks |-> Len(cs),
   works |-> worksOf(cs),
   speakers |-> speakersOf(cs),
   avgTextLength |-> roundedMean(total(cs, "textLength"), Len(cs)),
   avgWordCount |-> roundedMean(total(cs, "wordCount"), Len(cs))]

VARIABLES
  lines,           \* the lines read so far: lines[0..i-1] of text.split('\n')
  pc,              \* "scan": in the loop; "raw": processShakespeareText returned; "done": cleaned
  currentWork, currentSpeaker, currentChunk, chunkId,
  inSonnets, sonnetNumber, sonnetText,
  chunks,          \* the raw chunks
  cleanedChunks,   \* cleanChunks(rawChunks), once computed
  stats,           \* main's stats object, once computed
  chunkStart,      \* history: index in lines of the first line held in currentChunk (0: none)
  sonnetStart,     \* history: index in lines of the first line held in sonnetText (0: none)
  origin,          \* history: for each raw chunk, the index in lines of its first line
  preempted,       \* history: the call was suspended inside its loop
  input,           \* the text given to the call, when it is fixed beforehand (else << >>)
  priorRun,        \* << >>, or the text and the result of an earlier call
  other,           \* << >>, or the suspended second call
  indexDimension,  \* the vector store: 0 while the index does not exist, else the dimension it was created with
  indexReady,      \* the vector store: describeIndex reports status.ready
  store,           \* the vector store: the vectors it holds
  vectorsJson,     \* the chunks of ./vectors.json
  ingest,          \* the ingestion script: its position in main and upsertVectorsToPinecone, and their locals
  server,          \* the server: its position in initializeIndex and its index handle;
                   \* history: created, initializeIndex created the index
  requests,        \* the POST /api/reset requests: their position in resetDatabase and its locals;
                   \* and the status of the answer (0: none yet); history: overtaken, another
                   \* request cleared the index under its loop; deleteAll, how its deleteAll ended
  sent,            \* history: who sent a vector of which dimension to the index
  handled,         \* << >>, or the request the server handled last and what it did for it
  upload,          \* the legacy server's POST /api/upsert request: its position and locals
  normal           \* a call of chunkNormally: its position and locals

vars == <<lines, pc, currentWork, currentSpeaker, currentChunk, chunkId,
          inSonnets, sonnetNumber, sonnetText, chunks, cleanedChunks, stats,
          chunkStart, sonnetStart, origin, preempted, input, priorRun, other,
          indexDimension, indexReady, store, vectorsJson, ingest, server, requests, sent,
          handled, upload, normal>>

calls == <<preempted, input, priorRun, other>>

remote == <<indexDimension, indexReady, store, vectorsJson, ingest, server, requests, sent>>

aside == <<handled, upload, normal>>

\* no request handled, none uploaded, chunkNormally not called
NoAside ==
  /\ handled = <<>>
  /\ upload = [pc |-> "idle", documentName |-> <<>>, category |-> <<>>, chunks |-> <<>>,
               i |-> 0, vectors |-> <<>>, status |-> 0, calls |-> <<>>]
  /\ normal = [pc |-> "idle", text |-> <<>>, start |-> 0, chunks |-> <<>>]

segmenter == <<currentWork, currentSpeaker, currentChunk, chunkId,
               inSonnets, sonnetNumber, sonnetText, chunks>>

\* nothing has run yet: no index, no vectors.json, the script and the server
\* not started, no request received
NoRemote ==
  /\ indexDimension = 0
  /\ indexReady = FALSE
  /\ store = {}
  /\ vectorsJson = <<>>
  /\ ingest = [pc |-> "start", chunks |-> <<>>, i |-> 0, calls |-> <<>>,
               pending |-> <<>>, result |-> <<>>]
  /\ server = [pc |-> "listen", index |-> FALSE, created |-> FALSE]
  /\ requests = [r \in 1..MaxRequests |-> [pc |-> "idle", chunks |-> <<>>, i |-> 0, calls |-> <<>>,
                                          status |-> 0, overtaken |-> FALSE,
                                          deleteAll |-> "none"]]
  /\ sent = {}
  /\ NoAside

Init ==
  /\ lines = <<>>
  /\ pc = "scan"
  /\ currentWork = UNKNOWN
  /\ currentSpeaker = null
  /\ currentChunk = <<>>
  /\ chunkId = 0
  /\ inSonnets = FALSE
  /\ sonnetNumber = null
  /\ sonnetText = <<>>
  /\ chunks = <<>>
  /\ cleanedChunks = <<>>
  /\ stats = null
  /\ chunkStart = 0
  /\ sonnetStart = 0
  /\ origin = <<>>
  /\ preempted = FALSE
  /\ input = <<>>
  /\ priorRun = <<>>
  /\ other = <<>>
  /\ NoRemote

\* a call of the pipeline at its start: the locals as they are declared
freshCall ==
  [lines |-> <<>>, pc |-> "scan", currentWork |-> UNKNOWN, currentSpeaker |-> null,
   currentChunk |-> <<>>, chunkId |-> 0, inSonnets |-> FALSE, sonnetNumber |-> null,
   sonnetText |-> <<>>, chunks |-> <<>>, cleanedChunks |-> <<>>, stats |-> null,
   chunkStart |-> 0, sonnetStart |-> 0, origin |-> <<>>, preempted |-> FALSE]

\* the running call: its locals and its position
thisCall ==
  [lines |-> lines, pc |-> pc, currentWork |-> currentWork,
   currentSpeaker |-> currentSpeaker, currentChunk |-> currentChunk,
   chunkId |-> chunkId, inSonnets |-> inSonnets, sonnetNumber |-> sonnetNumber,
   sonnetText |-> sonnetText, chunks |-> chunks, cleanedChunks |-> cleanedChunks,
   stats |-> stats, chunkStart |-> chunkStart, sonnetStart |-> sonnetStart,
   origin |-> origin, preempted |-> preempted]

\* the call c becomes the running call
Enter(c) ==
  /\ lines' = c.lines
  /\ pc' = c.pc
  /\ currentWork' = c.currentWork
  /\ currentSpeaker' = c.currentSpeaker
  /\ currentChunk' = c.currentChunk
  /\ chunkId' = c.chunkId
  /\ inSonnets' = c.inSonnets
  /\ sonnetNumber' = c.sonnetNumber
  /\ sonnetText' = c.sonnetText
  /\ chunks' = c.chunks
  /\ cleanedChunks' = c.cleanedChunks
  /\ stats' = c.stats
  /\ chunkStart' = c.chunkStart
  /\ sonnetStart' = c.sonnetStart
  /\ origin' = c.origin
  /\ preempted' = c.preempted

\* two calls of the pipeline at their start, one of them running
PairInit ==
  /\ lines = <<>>
  /\ pc = "scan"
  /\ currentWork = UNKNOWN
  /\ currentSpeaker = null
  /\ currentChunk = <<>>
  /\ chunkId = 0
  /\ inSonnets = FALSE
  /\ sonnetNumber = null
  /\ sonnetText = <<>>
  /\ chunks = <<>>
  /\ cleanedChunks = <<>>
  /\ stats = null
  /\ chunkStart = 0
  /\ sonnetStart = 0
  /\ origin = <<>>
  /\ preempted = FALSE
  /\ input = <<>>
  /\ priorRun = <<>>
  /\ other = <<freshCall>>
  /\ NoRemote

(* ----------------------------- segmenter ------------------------------ *)
\* mutant of saveCurrentChunk: the chunk is built with the initial work
saveCurrentChunkInitialWork ==
  IF Trim(currentChunk) # <<>>
  THEN LET chunk == [id |-> chunkId, work |-> UNKNOWN,
                     speaker |-> currentSpeaker, text |-> Trim(currentChunk)]
       IN  [chunks |-> chunks \o splitLargeChunk(chunk, maxSize), chunkId |-> chunkId + 1]
  ELSE [chunks |-> chunks, chunkId |-> chunkId]

\* mutant of saveCurrentChunk: the chunk is pushed without the test of its text
saveCurrentChunkUnguarded ==
  LET chunk == [id |-> chunkId, work |-> currentWork,
                speaker |-> currentSpeaker, text |-> Trim(currentChunk)]
  IN  [chunks |-> chunks \o splitLargeChunk(chunk, maxSize), chunkId |-> chunkId + 1]

\* saveCurrentChunk: the raw chunks and the id counter after the call
saveCurrentChunk ==
  IF Trim(currentChunk) # <<>>
  THEN LET chunk == [id |-> chunkId, work |-> currentWork,
                     speaker |-> currentSpeaker, text |-> Trim(currentChunk)]
       IN  [chunks |-> chunks \o splitLargeChunk(chunk, maxSize), chunkId |-> chunkId + 1]
  ELSE [chunks |-> chunks, chunkId |-> chunkId]

\* `SONNET ${sonnetNumber}`
sonnetLabel(n) == <<"S","O","N","N","E","T"," ">> \o Str(n)

\* "save previous / final sonnet", after the raw chunks and id counter s
saveSonnet(s) ==
  IF inSonnets /\ Trim(sonnetText) # <<>>
  THEN [chunks |-> Append(s.chunks,
                     [id |-> s.chunkId, work |-> currentWork,
                      speaker |-> sonnetLabel(sonnetNumber), text |-> Trim(sonnetText)]),
        chunkId |-> s.chunkId + 1]
  ELSE s

\* history: the first lines of the chunks that cs adds to the raw chunks
originsOf(cs, start) == [j \in 1..(Len(cs) - Len(chunks)) |-> start]

\* the loop reads line k of the table as its next line
Reads(C, N, k) ==
  /\ pc = "scan" /\ Len(lines) < N /\ k \in C
  /\ IF input = <<>> THEN TRUE
     ELSE Len(lines) < Len(input) /\ Lines[k] = input[Len(lines) + 1]

\* if (!trimmedLine && !currentChunk) continue
SkipBlank(C, N) ==
  \E k \in C :
    /\ Reads(C, N, k)
    /\ ~Truthy(trimmedOf[k]) /\ ~Truthy(currentChunk)
    /\ lines' = Append(lines, Lines[k])
    /\ UNCHANGED <<pc, segmenter, cleanedChunks, stats, chunkStart, sonnetStart, origin, calls, remote, aside>>

Falls(C, N, k) ==
  Reads(C, N, k) /\ ~(~Truthy(trimmedOf[k]) /\ ~Truthy(currentChunk))

\* mutant of TitleLine: the sonnet number and the sonnet text are not reset
TitleLineKeepsSonnet(C, N) ==
  \E k \in C :
    /\ Falls(C, N, k)
    /\ workMatchOf[k] # null
    /\ LET s1 == saveCurrentChunk
           s2 == saveSonnet(s1)
       IN  /\ chunks' = s2.chunks
           /\ chunkId' = s2.chunkId
           /\ origin' = origin \o originsOf(s1.chunks, chunkStart)
                               \o [j \in 1..(Len(s2.chunks) - Len(s1.chunks)) |-> sonnetStart]
    /\ currentWork' = workMatchOf[k]
    /\ inSonnets' = (workMatchOf[k] = THE_SONNETS)
    /\ currentSpeaker' = null
    /\ currentChunk' = <<>>
    /\ chunkStart' = 0
    /\ lines' = Append(lines, Lines[k])
    /\ UNCHANGED <<pc, sonnetNumber, sonnetText, sonnetStart, cleanedChunks, stats, calls, remote, aside>>

\* mutant of TitleLine: the current work is set before the two saves
TitleLineSetsWorkFirst(C, N) ==
  \E k \in C :
    /\ Falls(C, N, k)
    /\ workMatchOf[k] # null
    /\ LET s1 == saveCurrentChunk
           s2 == saveSonnet(s1)
       IN  /\ chunks' = [i \in DOMAIN s2.chunks |->
                           IF i > Len(chunks)
                           THEN [s2.chunks[i] EXCEPT !.work = workMatchOf[k]]
                           ELSE s2.chunks[i]]
           /\ chunkId' = s2.chunkId
           /\ origin' = origin \o originsOf(s1.chunks, chunkStart)
                               \o [j \in 1..(Len(s2.chunks) - Len(s1.chunks)) |-> sonnetStart]
    /\ currentWork' = workMatchOf[k]
    /\ inSonnets' = (workMatchOf[k] = THE_SONNETS)
    /\ currentSpeaker' = null
    /\ currentChunk' = <<>>
    /\ sonnetNumber' = null
    /\ sonnetText' = <<>>
    /\ chunkStart' = 0
    /\ sonnetStart' = 0
    /\ lines' = Append(lines, Lines[k])
    /\ UNCHANGED <<pc, cleanedChunks, stats, calls, remote, aside>>

\* if (workMatch) { ... continue }
TitleLine(C, N) ==
  \E k \in C :
    /\ Falls(C, N, k)
    /\ workMatchOf[k] # null
    /\ LET s1 == saveCurrentChunk
           s2 == saveSonnet(s1)
       IN  /\ chunks' = s2.chunks
           /\ chunkId' = s2.chunkId
           /\ origin' = origin \o originsOf(s1.chunks, chunkStart)
                               \o [j \in 1..(Len(s2.chunks) - Len(s1.chunks)) |-> sonnetStart]
    /\ currentWork' = workMatchOf[k]
    /\ inSonnets' = (workMatchOf[k] = THE_SONNETS)
    /\ currentSpeaker' = null
    /\ currentChunk' = <<>>
    /\ sonnetNumber' = null
    /\ sonnetText' = <<>>
    /\ chunkStart' = 0
    /\ sonnetStart' = 0
    /\ lines' = Append(lines, Lines[k])
    /\ UNCHANGED <<pc, cleanedChunks, stats, calls, remote, aside>>

\* if (inSonnets) { if (sonnetMatch) { ... continue } ... }
SonnetNumberLine(C, N) ==
  \E k \in C :
    /\ Falls(C, N, k)
    /\ workMatchOf[k] = null
    /\ inSonnets
    /\ sonnetMatchOf[k] # null
    /\ LET s == saveSonnet([chunks |-> chunks, chunkId |-> chunkId])
       IN  /\ chunks' = s.chunks
           /\ chunkId' = s.chunkId
           /\ origin' = origin \o originsOf(s.chunks, sonnetStart)
    /\ sonnetNumber' = sonnetMatchOf[k]
    /\ sonnetText' = <<>>
    /\ sonnetStart' = 0
    /\ lines' = Append(lines, Lines[k])
    /\ UNCHANGED <<pc, currentWork, currentSpeaker, currentChunk, inSonnets,
                   cleanedChunks, stats, chunkStart, calls, remote, aside>>

\* if (inSonnets) { ... if (sonnetNumber && trimmedLine) sonnetText += line + '\n'; continue }
SonnetLine(C, N) ==
  \E k \in C :
    /\ Falls(C, N, k)
    /\ workMatchOf[k] = null
    /\ inSonnets
    /\ sonnetMatchOf[k] = null
    /\ IF Truthy(sonnetNumber) /\ Truthy(trimmedOf[k])
       THEN /\ sonnetText' = sonnetText \o Lines[k] \o <<"\n">>
            /\ sonnetStart' = IF sonnetText = <<>> THEN Len(lines) + 1 ELSE sonnetStart
       ELSE UNCHANGED <<sonnetText, sonnetStart, calls, remote, aside>>
    /\ lines' = Append(lines, Lines[k])
    /\ UNCHANGED <<pc, currentWork, currentSpeaker, currentChunk, chunkId, inSonnets,
                   sonnetNumber, chunks, cleanedChunks, stats, chunkStart, origin, calls, remote, aside>>

\* mutant of SpeakerLine: the accumulated text is not reset for the new speaker
SpeakerLineKeepsText(C, N) ==
  \E k \in C :
    /\ Falls(C, N, k)
    /\ workMatchOf[k] = null
    /\ ~inSonnets
    /\ Truthy(speakerOf[k])
    /\ LET s == saveCurrentChunk
       IN  /\ chunks' = s.chunks
           /\ chunkId' = s.chunkId
           /\ origin' = origin \o originsOf(s.chunks, chunkStart)
    /\ currentSpeaker' = speakerOf[k]
    /\ lines' = Append(lines, Lines[k])
    /\ UNCHANGED <<pc, currentWork, currentChunk, chunkStart, inSonnets, sonnetNumber,
                   sonnetText, cleanedChunks, stats, sonnetStart, calls, remote, aside>>

\* const speaker = isSpeakerLine(trimmedLine); if (speaker) { ... continue }
SpeakerLine(C, N) ==
  \E k \in C :
    /\ Falls(C, N, k)
    /\ workMatchOf[k] = null
    /\ ~inSonnets
    /\ Truthy(speakerOf[k])
    /\ LET s == saveCurrentChunk
       IN  /\ chunks' = s.chunks
           /\ chunkId' = s.chunkId
           /\ origin' = origin \o originsOf(s.chunks, chunkStart)
    /\ currentSpeaker' = speakerOf[k]
    /\ currentChunk' = <<>>
    /\ chunkStart' = 0
    /\ lines' = Append(lines, Lines[k])
    /\ UNCHANGED <<pc, currentWork, inSonnets, sonnetNumber, sonnetText,
                   cleanedChunks, stats, sonnetStart, calls, remote, aside>>

\* the two "skip stage directions" tests, each followed by continue
StageDirectionLine(C, N) ==
  \E k \in C :
    /\ Falls(C, N, k)
    /\ workMatchOf[k] = null
    /\ ~inSonnets
    /\ ~Truthy(speakerOf[k])
    /\ stageOf[k]
    /\ lines' = Append(lines, Lines[k])
    /\ UNCHANGED <<pc, segmenter, cleanedChunks, stats, chunkStart, sonnetStart, origin, calls, remote, aside>>

\* mutant of BodyLine: the line is appended whether or not a speaker is active
BodyLineAnySpeaker(C, N) ==
  \E k \in C :
    /\ Falls(C, N, k)
    /\ workMatchOf[k] = null
    /\ ~inSonnets
    /\ ~Truthy(speakerOf[k])
    /\ ~stageOf[k]
    /\ IF Truthy(trimmedOf[k])
       THEN /\ currentChunk' = currentChunk \o Lines[k] \o <<"\n">>
            /\ chunkStart' = IF currentChunk = <<>> THEN Len(lines) + 1 ELSE chunkStart
       ELSE UNCHANGED <<currentChunk, chunkStart>>
    /\ lines' = Append(lines, Lines[k])
    /\ UNCHANGED <<pc, currentWork, currentSpeaker, chunkId, inSonnets, sonnetNumber,
                   sonnetText, chunks, cleanedChunks, stats, sonnetStart, origin, calls, remote, aside>>

\* if (currentSpeaker && trimmedLine) currentChunk += line + '\n'
BodyLine(C, N) ==
  \E k \in C :
    /\ Falls(C, N, k)
    /\ workMatchOf[k] = null
    /\ ~inSonnets
    /\ ~Truthy(speakerOf[k])
    /\ ~stageOf[k]
    /\ IF Truthy(currentSpeaker) /\ Truthy(trimmedOf[k])
       THEN /\ currentChunk' = currentChunk \o Lines[k] \o <<"\n">>
            /\ chunkStart' = IF currentChunk = <<>> THEN Len(lines) + 1 ELSE chunkStart
       ELSE UNCHANGED <<currentChunk, chunkStart, calls, remote, aside>>
    /\ lines' = Append(lines, Lines[k])
    /\ UNCHANGED <<pc, currentWork, currentSpeaker, chunkId, inSonnets, sonnetNumber,
                   sonnetText, chunks, cleanedChunks, stats, sonnetStart, origin, calls, remote, aside>>

\* mutant of EndOfInput: the function returns without the two final saves
EndOfInputNoSave ==
  /\ pc = "scan"
  /\ Len(lines) >= 1
  /\ IF input = <<>> THEN TRUE ELSE lines = input
  /\ pc' = "raw"
  /\ UNCHANGED <<lines, segmenter, cleanedChunks, stats, chunkStart, sonnetStart, origin, calls, remote, aside>>

\* after the loop: "save final chunk", "save final sonnet", return chunks.
\* text.split('\n') has at least one element.
EndOfInput ==
  /\ pc = "scan"
  /\ Len(lines) >= 1
  /\ IF input = <<>> THEN TRUE ELSE lines = input
  /\ LET s1 == saveCurrentChunk
         s2 == saveSonnet(s1)
     IN  /\ chunks' = s2.chunks
         /\ chunkId' = s2.chunkId
         /\ origin' = origin \o originsOf(s1.chunks, chunkStart)
                             \o [j \in 1..(Len(s2.chunks) - Len(s1.chunks)) |-> sonnetStart]
  /\ pc' = "raw"
  /\ UNCHANGED <<lines, currentWork, currentSpeaker, currentChunk, inSonnets,
                 sonnetNumber, sonnetText, cleanedChunks, stats, chunkStart, sonnetStart, calls, remote, aside>>

\* mutant of Clean: cleanChunks renumbers the chunk objects it was given and
\* removes the dropped ones from the list it was given
CleanInPlace ==
  /\ pc = "raw"
  /\ cleanedChunks' = cleanChunks(chunks)
  /\ chunks' = [j \in 1..Len(SelectSeq(chunks, keepChunk)) |->
                  [SelectSeq(chunks, keepChunk)[j] EXCEPT !.id = j - 1]]
  /\ stats' = computeStats(cleanChunks(chunks))
  /\ pc' = "done"
  /\ UNCHANGED <<lines, currentWork, currentSpeaker, currentChunk, chunkId, inSonnets,
                 sonnetNumber, sonnetText, chunkStart, sonnetStart, origin, calls, remote, aside>>

\* main: const cleanedChunks = cleanChunks(rawChunks), then the statistics
Clean ==
  /\ pc = "raw"
  /\ cleanedChunks' = cleanChunks(chunks)
  /\ stats' = computeStats(cleanChunks(chunks))
  /\ pc' = "done"
  /\ UNCHANGED <<lines, segmenter, chunkStart, sonnetStart, origin, calls, remote, aside>>

Next ==
  \/ SkipBlank(PlayCorpus, MaxLines)
  \/ TitleLine(PlayCorpus, MaxLines)
  \/ SonnetNumberLine(PlayCorpus, MaxLines)
  \/ SonnetLine(PlayCorpus, MaxLines)
  \/ SpeakerLine(PlayCorpus, MaxLines)
  \/ StageDirectionLine(PlayCorpus, MaxLines)
  \/ BodyLine(PlayCorpus, MaxLines)
  \/ EndOfInput
  \/ Clean

Spec == Init /\ [][Next]_vars

\* the same pipeline on texts of long speeches
SpeechNext ==
  \/ SpeakerLine(SpeechCorpus, MaxSpeechLines)
  \/ BodyLine(SpeechCorpus, MaxSpeechLines)
  \/ EndOfInput
  \/ Clean

SpeechSpec == Init /\ [][SpeechNext]_vars

\* the same pipeline on texts of long sonnets
SonnetNext ==
  \/ TitleLine(SonnetCorpus, MaxSpeechLines)
  \/ SonnetNumberLine(SonnetCorpus, MaxSpeechLines)
  \/ SonnetLine(SonnetCorpus, MaxSpeechLines)
  \/ SpeakerLine(SonnetCorpus, MaxSpeechLines)
  \/ BodyLine(SonnetCorpus, MaxSpeechLines)
  \/ EndOfInput
  \/ Clean

SonnetSpec == Init /\ [][SonnetNext]_vars

\* the text and the result of the call that has just finished
result ==
  [text |-> lines, chunks |-> chunks, cleanedChunks |-> cleanedChunks,
   preempted |-> preempted]

\* mutant of CallAgain: currentWork is kept from the call before, as a variable
\* of the module would be
CallAgainKeepsWork ==
  /\ pc = "done"
  /\ input = <<>>
  /\ IF other = <<>> THEN TRUE ELSE other[1].pc = "done"
  /\ priorRun' = IF priorRun = <<>> THEN <<result>> ELSE priorRun
  /\ input' = priorRun'[1].text
  /\ Enter([freshCall EXCEPT !.currentWork = currentWork])
  /\ UNCHANGED <<other, remote, aside>>

\* the pipeline is called once more, alone, on the text of the first finished
\* call: processShakespeareText declares its locals anew
CallAgain ==
  /\ pc = "done"
  /\ input = <<>>
  /\ IF other = <<>> THEN TRUE ELSE other[1].pc = "done"
  /\ priorRun' = IF priorRun = <<>> THEN <<result>> ELSE priorRun
  /\ input' = priorRun'[1].text
  /\ Enter(freshCall)
  /\ UNCHANGED <<other, remote, aside>>

\* after the first call the pipeline is called on any other text
CallOther ==
  /\ pc = "done"
  /\ input = <<>>
  /\ priorRun = <<>>
  /\ other = <<>>
  /\ priorRun' = <<result>>
  /\ Enter(freshCall)
  /\ UNCHANGED <<input, other, remote, aside>>

\* mutant of Switch: currentWork is one variable shared by the two calls
SwitchSharesWork ==
  /\ other # <<>>
  /\ priorRun = <<>>
  /\ other' = <<[thisCall EXCEPT !.preempted = preempted \/ (pc = "scan" /\ lines # <<>>)]>>
  /\ Enter([other[1] EXCEPT !.currentWork = currentWork])
  /\ UNCHANGED <<input, priorRun, remote, aside>>

\* the running call is suspended between two lines and the other call goes on:
\* each call has its own locals
Switch ==
  /\ other # <<>>
  /\ priorRun = <<>>
  /\ other' = <<[thisCall EXCEPT !.preempted = preempted \/ (pc = "scan" /\ lines # <<>>)]>>
  /\ Enter(other[1])
  /\ UNCHANGED <<input, priorRun, remote, aside>>

\* calls of the pipeline one after another
RerunNext ==
  \/ TitleLine(CallCorpus, MaxCallLines)
  \/ SpeakerLine(CallCorpus, MaxCallLines)
  \/ BodyLine(CallCorpus, MaxCallLines)
  \/ EndOfInput
  \/ Clean
  \/ CallOther
  \/ CallAgain

RerunSpec == Init /\ [][RerunNext]_vars

\* two calls of the pipeline, interleaved line by line
PairNext ==
  \/ TitleLine(CallCorpus, MaxCallLines)
  \/ SpeakerLine(CallCorpus, MaxCallLines)
  \/ BodyLine(CallCorpus, MaxCallLines)
  \/ EndOfInput
  \/ Clean
  \/ Switch
  \/ CallAgain

PairSpec == PairInit /\ [][PairNext]_vars

\* the same pipeline on texts of one play with headings and numerals
CueNext ==
  \/ SpeakerLine(CueCorpus, MaxLines)
  \/ StageDirectionLine(CueCorpus, MaxLines)
  \/ BodyLine(CueCorpus, MaxLines)
  \/ EndOfInput
  \/ Clean

CueSpec == Init /\ [][CueNext]_vars

\* the same pipeline on texts of two works
SceneNext ==
  \/ SkipBlank(SceneCorpus, MaxSceneLines)
  \/ TitleLine(SceneCorpus, MaxSceneLines)
  \/ SpeakerLine(SceneCorpus, MaxSceneLines)
  \/ BodyLine(SceneCorpus, MaxSceneLines)
  \/ EndOfInput
  \/ Clean

SceneSpec == Init /\ [][SceneNext]_vars

(* ---------------------------- vector index ---------------------------- *)
\* const batchSize = 100, in upsertVectorsToPinecone and in resetDatabase
batchSize == 100
\* pc.createIndex({ dimension: 1024 }), in initializeIndex and in the script
createDimension == 1024
\* generateNormalizedRandomVector(1024) of the script
placeholderDimension == 1024
\* new Array(1024) of resetDatabase
resetDimension == 1024
\* generateEmbedding: embedding.length !== 1536 throws
embeddingDimension == 1536
\* generateNormalizedRandomVector(1536) of /api/validate-vectors
validateDimension == 1536

\* the raw chunks of a text of n speeches, and of the text of an earlier run
rawSpeeches(n) ==
  [j \in 1..n |-> [id |-> j - 1, work |-> Lines[3], speaker |-> stripPeriod(Lines[2]),
                   text |-> IF j % 2 = 0 THEN Lines[9] ELSE Lines[9] \o <<" ">> \o Lines[9]]]
earlierSpeeches(n) ==
  [j \in 1..n |-> [id |-> j - 1, work |-> Lines[3], speaker |-> stripPeriod(Lines[2]),
                   text |-> Lines[14] \o <<" ">> \o Lines[9]]]

\* the numbers of chunks the runs have: none, one batch, a partial batch, a
\* full batch followed by a partial one
ChunkCounts == {0, ExtraChunks, batchSize + ExtraChunks}

\* the cleaned chunk lists of these texts
ChunkLists == {cleanChunks(rawSpeeches(n)) : n \in ChunkCounts}

\* mutant of slice: the end index is taken as the last element kept, counted from 1
sliceBelow(cs, from, to) == SubSeq(cs, from + 1, Min({to, Len(cs)}) - 1)

\* chunks.slice(from, to)
slice(cs, from, to) == SubSeq(cs, from + 1, Min({to, Len(cs)}))

\* vectorMagnitude(normalizedVector).toFixed(6) of a normalized vector
unitMagnitude == <<"1",".","0","0","0","0","0","0">>

\* the vector the script builds for a chunk; its values are random: the model
\* keeps their number
ingestVector(chunk) ==
  [id |-> NatToStr(chunk.id), dimension |-> placeholderDimension,
   metadata |-> [work |-> chunk.work, speaker |-> chunk.speaker, text |-> chunk.text,
                 textLength |-> chunk.textLength, wordCount |-> chunk.wordCount,
                 vectorMagnitude |-> unitMagnitude]]

\* the vector resetDatabase builds for a chunk
resetVector(chunk) ==
  [id |-> NatToStr(chunk.id), dimension |-> resetDimension,
   metadata |-> [work |-> chunk.work, speaker |-> chunk.speaker, text |-> chunk.text,
                 textLength |-> chunk.textLength, wordCount |-> chunk.wordCount]]

idsOf(vectors) == [j \in 1..Len(vectors) |-> vectors[j].id]

\* index.upsert(vectors) at the store: a vector replaces the one of its id
upsert(s, vectors) ==
  {v \in s : \A j \in 1..Len(vectors) : vectors[j].id # v.id}
    \cup {vectors[j] : j \in {j \in 1..Len(vectors) :
                                \A k \in (j + 1)..Len(vectors) : vectors[k].id # vectors[j].id}}

\* the answers index.deleteAll() can get: done, an error whose message has
\* '404' (the store has no vector), any other error
deleteAllOutcomes == IF store = {} THEN {"ok", "404", "error"} ELSE {"ok", "error"}

\* the vectors an earlier run of the script left in the index: one more than
\* any of the lists has
EarlierStore ==
  {ingestVector(cleanChunks(earlierSpeeches(batchSize + ExtraChunks + 1))[j]) :
     j \in 1..(batchSize + ExtraChunks + 1)}

\* the index, already there with the vectors of an earlier run, or not there
IndexInit ==
  /\ lines = <<>>
  /\ pc = "scan"
  /\ currentWork = UNKNOWN
  /\ currentSpeaker = null
  /\ currentChunk = <<>>
  /\ chunkId = 0
  /\ inSonnets = FALSE
  /\ sonnetNumber = null
  /\ sonnetText = <<>>
  /\ chunks = <<>>
  /\ cleanedChunks = <<>>
  /\ stats = null
  /\ chunkStart = 0
  /\ sonnetStart = 0
  /\ origin = <<>>
  /\ preempted = FALSE
  /\ input = <<>>
  /\ priorRun = <<>>
  /\ other = <<>>
  /\ \/ /\ indexDimension = 0
        /\ indexReady = FALSE
        /\ store = {}
     \/ /\ indexDimension = createDimension
        /\ indexReady = TRUE
        /\ store \in {{}, EarlierStore}
  /\ vectorsJson \in ChunkLists
  /\ ingest = [pc |-> "start", chunks |-> <<>>, i |-> 0, calls |-> <<>>,
               pending |-> <<>>, result |-> <<>>]
  /\ server = [pc |-> "listen", index |-> FALSE, created |-> FALSE]
  /\ requests = [r \in 1..MaxRequests |-> [pc |-> "idle", chunks |-> <<>>, i |-> 0, calls |-> <<>>,
                                          status |-> 0, overtaken |-> FALSE,
                                          deleteAll |-> "none"]]
  /\ sent = {}
  /\ NoAside

local == <<lines, pc, segmenter, cleanedChunks, stats, chunkStart, sonnetStart, origin, calls>>

\* the vector store: the created index becomes ready
IndexBecomesReady ==
  /\ indexDimension # 0
  /\ ~indexReady
  /\ indexReady' = TRUE
  /\ UNCHANGED <<local, aside, indexDimension, store, vectorsJson, ingest, server, requests, sent>>

\* main of the script, from the cleaned chunks on: writes vectors.json, calls
\* upsertVectorsToPinecone(cleanedChunks), which awaits pc.listIndexes()
IngestList ==
  /\ ingest.pc = "start"
  /\ \E cs \in ChunkLists :
       /\ vectorsJson' = cs
       /\ ingest' = [ingest EXCEPT !.chunks = cs,
                                   !.pc = IF indexDimension # 0 THEN "clear" ELSE "create"]
  /\ UNCHANGED <<local, aside, indexDimension, indexReady, store, server, requests, sent>>

\* await pc.createIndex(...): refused when the index exists by now
IngestCreate ==
  /\ ingest.pc = "create"
  /\ IF indexDimension # 0
     THEN /\ ingest' = [ingest EXCEPT !.pc = "failed"]
          /\ UNCHANGED <<indexDimension, indexReady>>
     ELSE /\ indexDimension' = createDimension
          /\ indexReady' = FALSE
          /\ ingest' = [ingest EXCEPT !.pc = "wait"]
  /\ UNCHANGED <<local, aside, store, vectorsJson, server, requests, sent>>

\* the polling loop leaves when describeIndex reports ready
IngestReady ==
  /\ ingest.pc = "wait"
  /\ indexReady
  /\ ingest' = [ingest EXCEPT !.pc = "clear"]
  /\ UNCHANGED <<local, aside, indexDimension, indexReady, store, vectorsJson, server, requests, sent>>

\* await index.deleteAll() in its try/catch, then the head of the loop
IngestClear ==
  /\ ingest.pc = "clear"
  /\ \E outcome \in deleteAllOutcomes :
       /\ store' = IF outcome = "ok" THEN {} ELSE store
       /\ ingest' = [ingest EXCEPT
            !.calls = Append(@, [op |-> "deleteAll", ids |-> <<>>]),
            !.pc = IF outcome = "error" THEN "failed"
                   ELSE IF 0 < Len(ingest.chunks) THEN "batch" ELSE "success",
            !.result = IF outcome # "error" /\ Len(ingest.chunks) = 0
                       THEN <<[success |-> TRUE, vectorsUpserted |-> Len(ingest.chunks)]>>
                       ELSE @]
  /\ UNCHANGED <<local, aside, indexDimension, indexReady, vectorsJson, server, requests, sent>>

\* mutant of IngestSend: the batches are sent without awaiting the one before
IngestSendUnawaited ==
  /\ ingest.pc = "batch"
  /\ LET batch == slice(ingest.chunks, ingest.i, ingest.i + batchSize)
         vectors == [j \in 1..Len(batch) |-> ingestVector(batch[j])]
     IN  /\ ingest' = [ingest EXCEPT
               !.calls = Append(@, [op |-> "upsert", ids |-> idsOf(vectors)]),
               !.pending = Append(@, vectors),
               !.i = @ + batchSize,
               !.pc = IF ingest.i + batchSize < Len(ingest.chunks) THEN "batch" ELSE "await"]
         /\ sent' = sent \cup {[by |-> "ingest", dimension |-> vectors[j].dimension] :
                                 j \in 1..Len(vectors)}
  /\ UNCHANGED <<local, aside, indexDimension, indexReady, store, vectorsJson, server, requests>>

\* the body of the loop up to its await: the batch is built and index.upsert(vectors) called
IngestSend ==
  /\ ingest.pc = "batch"
  /\ LET batch == slice(ingest.chunks, ingest.i, ingest.i + batchSize)
         vectors == [j \in 1..Len(batch) |-> ingestVector(batch[j])]
     IN  /\ ingest' = [ingest EXCEPT
               !.calls = Append(@, [op |-> "upsert", ids |-> idsOf(vectors)]),
               !.pending = Append(@, vectors),
               !.pc = "await"]
         /\ sent' = sent \cup {[by |-> "ingest", dimension |-> vectors[j].dimension] :
                                 j \in 1..Len(vectors)}
  /\ UNCHANGED <<local, aside, indexDimension, indexReady, store, vectorsJson, server, requests>>

\* the store serves the upsert and the loop goes on: i += batchSize, the test
\* of the loop, and after the loop the return
IngestUpsert ==
  /\ ingest.pc = "await"
  /\ \E outcome \in {"ok", "error"} :
       IF outcome = "error"
       THEN /\ ingest' = [ingest EXCEPT !.pc = "failed", !.pending = Tail(@)]
            /\ UNCHANGED store
       ELSE /\ store' = upsert(store, Head(ingest.pending))
            /\ ingest' = [ingest EXCEPT
                 !.pending = Tail(@),
                 !.i = @ + batchSize,
                 !.pc = IF ingest.i + batchSize < Len(ingest.chunks) THEN "batch" ELSE "success",
                 !.result = IF ingest.i + batchSize < Len(ingest.chunks) THEN @
                            ELSE <<[success |-> TRUE, vectorsUpserted |-> Len(ingest.chunks)]>>]
  /\ UNCHANGED <<local, aside, indexDimension, indexReady, vectorsJson, server, requests, sent>>

\* app.listen's callback: initializeIndex awaits pc.listIndexes(); when the
\* index exists the handle is set
ServerList ==
  /\ server.pc = "listen"
  /\ server' = IF indexDimension # 0 THEN [server EXCEPT !.pc = "up", !.index = TRUE]
               ELSE [server EXCEPT !.pc = "create"]
  /\ UNCHANGED <<local, aside, indexDimension, indexReady, store, vectorsJson, ingest, requests, sent>>

\* await pc.createIndex(...): refused when the index exists by now, and the
\* catch ends the process
ServerCreate ==
  /\ server.pc = "create"
  /\ IF indexDimension # 0
     THEN /\ server' = [server EXCEPT !.pc = "exited"]
          /\ UNCHANGED <<indexDimension, indexReady>>
     ELSE /\ indexDimension' = createDimension
          /\ indexReady' = FALSE
          /\ server' = [server EXCEPT !.pc = "wait", !.created = TRUE]
  /\ UNCHANGED <<local, aside, store, vectorsJson, ingest, requests, sent>>

\* mutant of ServerReady: the handle is set without waiting for the index
ServerReadyAtOnce ==
  /\ server.pc = "wait"
  /\ server' = [server EXCEPT !.pc = "up", !.index = TRUE]
  /\ UNCHANGED <<local, aside, indexDimension, indexReady, store, vectorsJson, ingest, requests, sent>>

\* the polling loop leaves when describeIndex reports ready; index = pc.index(INDEX_NAME)
ServerReady ==
  /\ server.pc = "wait"
  /\ indexReady
  /\ server' = [server EXCEPT !.pc = "up", !.index = TRUE]
  /\ UNCHANGED <<local, aside, indexDimension, indexReady, store, vectorsJson, ingest, requests, sent>>

\* the polling loop: describeIndex reports the index not ready, and the loop
\* awaits its timer of a second
ServerPollAgain ==
  /\ server.pc = "wait"
  /\ ~indexReady
  /\ server' = [server EXCEPT !.pc = "sleep"]
  /\ UNCHANGED <<local, aside, indexDimension, indexReady, store, vectorsJson, ingest, requests, sent>>

\* the timer fires: the loop calls describeIndex again
ServerWake ==
  /\ server.pc = "sleep"
  /\ server' = [server EXCEPT !.pc = "wait"]
  /\ UNCHANGED <<local, aside, indexDimension, indexReady, store, vectorsJson, ingest, requests, sent>>

\* an awaited call of initializeIndex throws (listIndexes, createIndex,
\* describeIndex): the catch calls process.exit(1)
ServerFails ==
  /\ server.pc \in {"listen", "create", "wait"}
  /\ server' = [server EXCEPT !.pc = "exited"]
  /\ UNCHANGED <<local, aside, indexDimension, indexReady, store, vectorsJson, ingest, requests, sent>>

\* history: the requests whose loop is under way when request r clears the index
overtakenBy(r, outcome) ==
  [q \in 1..MaxRequests |->
     IF q # r /\ outcome = "ok" /\ requests[q].pc = "batch"
     THEN [requests[q] EXCEPT !.overtaken = TRUE] ELSE requests[q]]

\* mutant of ResetClear: index.deleteAll() is not called
ResetClearKeeps(r) ==
  /\ requests[r].pc = "idle"
  /\ server.pc # "exited"
  /\ IF ~server.index
     THEN requests' = [requests EXCEPT ![r].pc = "error", ![r].status = 500]
     ELSE requests' = [requests EXCEPT
                 ![r].calls = Append(@, "deleteAll"),
                 ![r].chunks = vectorsJson,
                 ![r].pc = IF 0 < Len(vectorsJson) THEN "batch" ELSE "ok",
                 ![r].status = IF 0 < Len(vectorsJson) THEN @ ELSE 200]
  /\ UNCHANGED <<local, aside, indexDimension, indexReady, store, vectorsJson, ingest, server, sent>>

\* mutant of ResetClear: the catch of deleteAll swallows every error
ResetClearSwallows(r) ==
  /\ requests[r].pc = "idle"
  /\ server.pc # "exited"
  /\ IF ~server.index
     THEN /\ requests' = [requests EXCEPT ![r].pc = "error", ![r].status = 500]
          /\ UNCHANGED store
     ELSE \E outcome \in deleteAllOutcomes :
            /\ store' = IF outcome = "ok" THEN {} ELSE store
            /\ requests' = [overtakenBy(r, outcome) EXCEPT
                 ![r].calls = Append(@, "deleteAll"),
                 ![r].deleteAll = outcome,
                 ![r].chunks = vectorsJson,
                 ![r].pc = IF 0 < Len(vectorsJson) THEN "batch" ELSE "ok",
                 ![r].status = IF 0 < Len(vectorsJson) THEN @ ELSE 200]
  /\ UNCHANGED <<local, aside, indexDimension, indexReady, vectorsJson, ingest, server, sent>>

\* POST /api/reset arrives: resetDatabase up to the end of its first await,
\* then readFileSync('./vectors.json') and the head of the loop
ResetClear(r) ==
  /\ requests[r].pc = "idle"
  /\ server.pc # "exited"
  /\ IF ~server.index
     THEN /\ requests' = [requests EXCEPT ![r].pc = "error", ![r].status = 500]
          /\ UNCHANGED store
     ELSE \E outcome \in deleteAllOutcomes :
            /\ store' = IF outcome = "ok" THEN {} ELSE store
            /\ requests' = [overtakenBy(r, outcome) EXCEPT
                 ![r].calls = Append(@, "deleteAll"),
                 ![r].deleteAll = outcome,
                 ![r].chunks = IF outcome = "error" THEN @ ELSE vectorsJson,
                 ![r].pc = IF outcome = "error" THEN "error"
                           ELSE IF 0 < Len(vectorsJson) THEN "batch" ELSE "ok",
                 ![r].status = IF outcome = "error" THEN 500
                               ELSE IF 0 < Len(vectorsJson) THEN @ ELSE 200]
  /\ UNCHANGED <<local, aside, indexDimension, indexReady, vectorsJson, ingest, server, sent>>

\* the body of the loop: await index.upsert(vectors), i += batchSize, the test
\* of the loop, and after the loop the return
ResetUpsert(r) ==
  /\ requests[r].pc = "batch"
  /\ server.pc # "exited"
  /\ LET batch == slice(requests[r].chunks, requests[r].i, requests[r].i + batchSize)
         vectors == [j \in 1..Len(batch) |-> resetVector(batch[j])]
     IN  /\ sent' = sent \cup {[by |-> "reset", dimension |-> vectors[j].dimension] :
                                 j \in 1..Len(vectors)}
         /\ \E outcome \in {"ok", "error"} :
              IF outcome = "error"
              THEN /\ requests' = [requests EXCEPT ![r].calls = Append(@, "upsert"),
                                                   ![r].pc = "error", ![r].status = 500]
                   /\ UNCHANGED store
              ELSE /\ store' = upsert(store, vectors)
                   /\ requests' = [requests EXCEPT
                        ![r].calls = Append(@, "upsert"),
                        ![r].i = @ + batchSize,
                        ![r].pc = IF requests[r].i + batchSize < Len(requests[r].chunks)
                                  THEN "batch" ELSE "ok",
                        ![r].status = IF requests[r].i + batchSize < Len(requests[r].chunks)
                                      THEN @ ELSE 200]
  /\ UNCHANGED <<local, aside, indexDimension, indexReady, vectorsJson, ingest, server>>

\* const { query, topK = 5 } = req.body
defaultTopK == 5
\* topK: Math.min(topK, 100)
maxTopK == 100
\* parseInt(req.query.sampleSize) || 10
defaultSampleSize == 10

\* the queries and the topK values (<< >>: none given) of the requests
Queries == {<<>>, Lines[9]}
TopKs == {<<>>} \cup {<<n>> : n \in {0, 1, defaultTopK} \cup ((maxTopK - 1)..(maxTopK + MoreThanMax))}

\* how the calls of a handler can end: the embedding call fails, the vector
\* store refuses the call (always, for a vector of another dimension), all succeed
outcomesFor(dimension) ==
  {"embedding fails", "store fails"} \cup (IF dimension = indexDimension THEN {"ok"} ELSE {})

\* mutant of queryReply: the handle is not tested
queryReplyUntested(query, topK, indexSet, outcome) ==
  IF ~Truthy(query)
  THEN [route |-> "query", query |-> query, topK |-> topK, index |-> indexSet,
        status |-> 400, embedded |-> FALSE, stored |-> FALSE, passed |-> <<>>]
  ELSE IF outcome = "embedding fails"
  THEN [route |-> "query", query |-> query, topK |-> topK, index |-> indexSet,
        status |-> 500, embedded |-> TRUE, stored |-> FALSE, passed |-> <<>>]
  ELSE [route |-> "query", query |-> query, topK |-> topK, index |-> indexSet,
        status |-> IF outcome = "ok" /\ indexSet THEN 200 ELSE 500,
        embedded |-> TRUE, stored |-> indexSet,
        passed |-> <<Min({IF topK = <<>> THEN defaultTopK ELSE topK[1], maxTopK})>>]

\* mutant of queryReply: topK: parseInt(topK), as the legacy handler passes it
queryReplyUnclamped(query, topK, indexSet, outcome) ==
  IF ~Truthy(query)
  THEN [route |-> "query", query |-> query, topK |-> topK, index |-> indexSet,
        status |-> 400, embedded |-> FALSE, stored |-> FALSE, passed |-> <<>>]
  ELSE IF ~indexSet
  THEN [route |-> "query", query |-> query, topK |-> topK, index |-> indexSet,
        status |-> 503, embedded |-> FALSE, stored |-> FALSE, passed |-> <<>>]
  ELSE IF outcome = "embedding fails"
  THEN [route |-> "query", query |-> query, topK |-> topK, index |-> indexSet,
        status |-> 500, embedded |-> TRUE, stored |-> FALSE, passed |-> <<>>]
  ELSE [route |-> "query", query |-> query, topK |-> topK, index |-> indexSet,
        status |-> IF outcome = "ok" THEN 200 ELSE 500,
        embedded |-> TRUE, stored |-> TRUE,
        passed |-> <<IF topK = <<>> THEN defaultTopK ELSE topK[1]>>]

\* the handler of POST /api/query: what it answers, whether it called
\* generateEmbedding and index.query, and the topK it passed
queryReply(query, topK, indexSet, outcome) ==
  IF ~Truthy(query)
  THEN [route |-> "query", query |-> query, topK |-> topK, index |-> indexSet,
        status |-> 400, embedded |-> FALSE, stored |-> FALSE, passed |-> <<>>]
  ELSE IF ~indexSet
  THEN [route |-> "query", query |-> query, topK |-> topK, index |-> indexSet,
        status |-> 503, embedded |-> FALSE, stored |-> FALSE, passed |-> <<>>]
  ELSE IF outcome = "embedding fails"
  THEN [route |-> "query", query |-> query, topK |-> topK, index |-> indexSet,
        status |-> 500, embedded |-> TRUE, stored |-> FALSE, passed |-> <<>>]
  ELSE [route |-> "query", query |-> query, topK |-> topK, index |-> indexSet,
        status |-> IF outcome = "ok" THEN 200 ELSE 500,
        embedded |-> TRUE, stored |-> TRUE,
        passed |-> <<Min({IF topK = <<>> THEN defaultTopK ELSE topK[1], maxTopK})>>]

\* POST /api/query arrives, with one of the queries Qs and of the topK values Ks
Query(Qs, Ks) ==
  /\ server.pc # "exited"
  /\ \E query \in Qs, topK \in Ks, outcome \in outcomesFor(embeddingDimension) :
       LET reply == queryReply(query, topK, server.index, outcome)
       IN  /\ handled' = <<reply>>
           /\ sent' = IF reply.stored
                      THEN sent \cup {[by |-> "query", dimension |-> embeddingDimension]}
                      ELSE sent
  /\ UNCHANGED <<local, upload, normal, indexDimension, indexReady, store, vectorsJson,
                 ingest, server, requests>>

\* GET /api/metrics arrives: index.describeIndexStats() when the handle is set
Metrics ==
  /\ server.pc # "exited"
  /\ \E outcome \in {"store fails", "ok"} :
       handled' = <<[route |-> "metrics", query |-> <<>>, topK |-> <<>>, index |-> server.index,
                     status |-> IF ~server.index THEN 503
                                ELSE IF outcome = "ok" THEN 200 ELSE 500,
                     embedded |-> FALSE, stored |-> server.index, passed |-> <<>>]>>
  /\ UNCHANGED <<local, upload, normal, remote>>

\* GET /api/validate-vectors arrives: index.query with a random vector when the
\* handle is set
ValidateVectors ==
  /\ server.pc # "exited"
  /\ \E outcome \in outcomesFor(validateDimension) \ {"embedding fails"} :
       /\ handled' = <<[route |-> "validate-vectors", query |-> <<>>, topK |-> <<>>,
                        index |-> server.index,
                        status |-> IF ~server.index THEN 503
                                   ELSE IF outcome = "ok" THEN 200 ELSE 500,
                        embedded |-> FALSE, stored |-> server.index,
                        passed |-> IF server.index THEN <<defaultSampleSize>> ELSE <<>>]>>
       /\ sent' = IF server.index
                  THEN sent \cup {[by |-> "validate-vectors", dimension |-> validateDimension]}
                  ELSE sent
  /\ UNCHANGED <<local, upload, normal, indexDimension, indexReady, store, vectorsJson,
                 ingest, server, requests>>

\* the script, the server, a reset and the requests that read the index
IndexNext ==
  \/ IndexBecomesReady
  \/ IngestList
  \/ IngestCreate
  \/ IngestReady
  \/ IngestClear
  \/ IngestSend
  \/ IngestUpsert
  \/ ServerList
  \/ ServerCreate
  \/ ServerReady
  \/ ResetClear(1)
  \/ ResetUpsert(1)
  \/ Query({Lines[9]}, {<<>>})
  \/ ValidateVectors

IndexSpec == IndexInit /\ [][IndexNext]_vars

\* the script against the index, while the server starts
IngestNext ==
  \/ IndexBecomesReady
  \/ ServerList
  \/ ServerCreate
  \/ ServerReady
  \/ IngestList
  \/ IngestCreate
  \/ IngestReady
  \/ IngestClear
  \/ IngestSend
  \/ IngestUpsert

IngestSpec == IndexInit /\ [][IngestNext]_vars

\* the server and its requests against the index
ServerNext ==
  \/ IndexBecomesReady
  \/ ServerList
  \/ ServerCreate
  \/ ServerReady
  \/ \E r \in 1..MaxRequests : ResetClear(r)
  \/ \E r \in 1..MaxRequests : ResetUpsert(r)

ServerSpec == IndexInit /\ [][ServerNext]_vars

\* the server starting, and the requests that read the index
RequestNext ==
  \/ IndexBecomesReady
  \/ ServerList
  \/ ServerCreate
  \/ ServerReady
  \/ Query(Queries, TopKs)
  \/ Metrics
  \/ ValidateVectors

RequestSpec == IndexInit /\ [][RequestNext]_vars

\* the server starting, while the script may create the index first
StartNext ==
  \/ IndexBecomesReady
  \/ ServerList
  \/ ServerCreate
  \/ ServerReady
  \/ ServerPollAgain
  \/ ServerWake
  \/ ServerFails
  \/ IngestList
  \/ IngestCreate
  \/ IngestReady
  \/ IngestClear
  \/ IngestSend
  \/ IngestUpsert

StartSpec == IndexInit /\ [][StartNext]_vars

\* the index that was created becomes ready in the end, the event loop runs
\* the continuations of initializeIndex, and a call that will throw does so
StartFairSpec ==
  /\ StartSpec
  /\ WF_vars(IndexBecomesReady)
  /\ WF_vars(ServerList)
  /\ WF_vars(ServerCreate)
  /\ WF_vars(ServerReady)
  /\ WF_vars(ServerPollAgain)
  /\ WF_vars(ServerWake)

(* ------------------- the earlier server: chunkNormally ------------------ *)
\* the defaults of chunkNormally(text, maxSize = 800, overlap = 100)
normalSize == 800
normalOverlap == 100

\* String.prototype.lastIndexOf(c, from) of one character, 0 <= from: the
\* greatest index, counted from 0 and at most from, where c stands, or -1
lastIndexOf(s, c, from) ==
  LET last == Min({from, Len(s) - 1})
  IN  IF \E i \in 0..last : s[i + 1] = c
      THEN CHOOSE i \in 0..last : s[i + 1] = c /\ \A j \in (i + 1)..last : s[j + 1] # c
      ELSE -1

\* mutant of normalEnd: a sentence or word end anywhere after start is taken
normalEndAnywhere(text, start, size) ==
  LET end == start + size
      sentenceEnd == lastIndexOf(text, ".", end)
      wordEnd == lastIndexOf(text, " ", end)
  IN  IF end < Len(text)
      THEN IF sentenceEnd > start THEN sentenceEnd + 1
           ELSE IF wordEnd > start THEN wordEnd
           ELSE end
      ELSE end

\* the end of the chunk that starts at start: start + size, moved back to the
\* last sentence end or else the last word end in the second half of the window
\* when the text goes on beyond it (maxSize / 2 is compared doubled)
normalEnd(text, start, size) ==
  LET end == start + size
      sentenceEnd == lastIndexOf(text, ".", end)
      wordEnd == lastIndexOf(text, " ", end)
  IN  IF end < Len(text)
      THEN IF 2 * sentenceEnd > 2 * start + size THEN sentenceEnd + 1
           ELSE IF 2 * wordEnd > 2 * start + size THEN wordEnd
           ELSE end
      ELSE end

\* the chunks of the loop of chunkNormally from position start on
RECURSIVE normalFrom(_, _, _, _)
normalFrom(text, start, size, overlap) ==
  IF start < Len(text)
  THEN LET end == normalEnd(text, start, size)
           chunk == Trim(slice(text, start, end))
       IN  (IF Len(chunk) > 0 THEN <<[text |-> chunk, speaker |-> null]>> ELSE <<>>)
             \o normalFrom(text, end - overlap, size, overlap)
  ELSE <<>>

chunkNormally(text, size, overlap) == normalFrom(text, 0, size, overlap)

\* the texts chunkNormally is called on: a length, one character everywhere
\* but for a full stop and a space at chosen indices (counted from 0, -1: none)
TextLengths ==
  {0, 1, normalSize, normalSize + 1} \cup {k * normalSize + 2 : k \in 1..MaxWindows}
FullStops == {-1, normalSize \div 2, normalSize \div 2 + 1, normalSize,
              normalSize + normalSize \div 2 + 1}
Spaces == {-1, normalSize \div 2 + 2, normalSize - 1, normalSize + normalSize \div 2 + 2}
textOf(length, fullStop, space, fill) ==
  [i \in 1..length |-> IF i - 1 = fullStop THEN "."
                       ELSE IF i - 1 = space THEN " " ELSE fill]

\* chunkNormally(text) is called
NormalCall(text) ==
  /\ normal.pc = "idle"
  /\ normal' = [pc |-> "loop", text |-> text, start |-> 0, chunks |-> <<>>]
  /\ UNCHANGED <<local, remote, handled, upload>>

\* one iteration of the loop of chunkNormally
NormalStep ==
  /\ normal.pc = "loop"
  /\ normal.start < Len(normal.text)
  /\ LET end == normalEnd(normal.text, normal.start, normalSize)
         chunk == Trim(slice(normal.text, normal.start, end))
     IN  normal' = [normal EXCEPT
           !.chunks = IF Len(chunk) > 0 THEN Append(@, [text |-> chunk, speaker |-> null]) ELSE @,
           !.start = end - normalOverlap]
  /\ UNCHANGED <<local, remote, handled, upload>>

\* the loop condition fails: chunkNormally returns its chunks
NormalReturn ==
  /\ normal.pc = "loop"
  /\ ~(normal.start < Len(normal.text))
  /\ normal' = [normal EXCEPT !.pc = "done"]
  /\ UNCHANGED <<local, remote, handled, upload>>

\* chunkNormally alone, nothing else running
NormalInit ==
  /\ IndexInit
  /\ indexDimension = 0
  /\ vectorsJson = <<>>

NormalNext ==
  \/ \E length \in TextLengths, fullStop \in FullStops, space \in Spaces :
       NormalCall(textOf(length, fullStop, space, "a"))
  \/ \E length \in TextLengths, space \in Spaces :
       NormalCall(textOf(length, -1, space, "."))
  \/ \E length \in 1..2 : NormalCall(textOf(length, -1, -1, " "))
  \/ NormalStep
  \/ NormalReturn

NormalSpec == NormalInit /\ [][NormalNext]_vars

\* the loop is synchronous code: once called it runs on
NormalFairSpec == NormalSpec /\ WF_vars(NormalStep) /\ WF_vars(NormalReturn)

(* ------------------- the earlier server: POST /api/upsert --------------- *)
\* the number of values of an embedding of multilingual-e5-large
e5Dimension == 1024

\* String.prototype.split(sep) at a one-character separator
RECURSIVE split(_, _)
split(text, sep) ==
  IF \E i \in 1..Len(text) : text[i] = sep
  THEN LET i == Min({j \in 1..Len(text) : text[j] = sep})
       IN  <<SubSeq(text, 1, i - 1)>> \o split(SubSeq(text, i + 1, Len(text)), sep)
  ELSE <<text>>

\* group 1 of line.match(/^([A-Z][A-Z\s]+)\./), or null: the text before the
\* first full stop, if it is a capital followed by one or more capitals and
\* white space
speakerMatch(line) ==
  LET stops == {i \in 1..Len(line) : line[i] = "."}
  IN  IF stops = {} THEN null
      ELSE LET d == Min(stops)
           IN  IF d >= 3 /\ line[1] \in Upper /\ AllIn(line, 2, d - 1, Upper \cup WS)
               THEN SubSeq(line, 1, d - 1)
               ELSE null

\* the loop of chunkBySpeak from line k on; st holds chunks, currentChunk and
\* currentSpeaker
RECURSIVE bySpeakFrom(_, _, _)
bySpeakFrom(ls, k, st) ==
  IF k > Len(ls)
  THEN IF Truthy(Trim(st.currentChunk))
       THEN Append(st.chunks, [speaker |-> st.currentSpeaker, text |-> Trim(st.currentChunk)])
       ELSE st.chunks
  ELSE LET line == ls[k]
           m == speakerMatch(line)
       IN  IF m # null /\ Len(Trim(m)) > 1
           THEN bySpeakFrom(ls, k + 1,
                  [chunks |-> IF Truthy(Trim(st.currentChunk))
                              THEN Append(st.chunks, [speaker |-> st.currentSpeaker,
                                                      text |-> Trim(st.currentChunk)])
                              ELSE st.chunks,
                   currentSpeaker |-> Trim(m),
                   currentChunk |-> line \o <<"\n">>])
           ELSE IF Truthy(st.currentChunk)
           THEN bySpeakFrom(ls, k + 1, [st EXCEPT !.currentChunk = @ \o line \o <<"\n">>])
           ELSE bySpeakFrom(ls, k + 1, st)

chunkBySpeak(text) ==
  bySpeakFrom(split(text, "\n"), 1, [chunks |-> <<>>, currentChunk |-> <<>>, currentSpeaker |-> <<>>])

\* documentName.replace(/[^a-zA-Z0-9]/g, '_')
sanitized(name) ==
  [k \in 1..Len(name) |-> IF name[k] \in Upper \cup Lower \cup Digit THEN name[k] ELSE "_"]

\* the vector the handler builds for chunk i (counted from 0) of its chunks
uploadVector(documentName, category, chunk, i) ==
  [id |-> sanitized(documentName) \o <<"_","c","h","u","n","k","_">> \o NatToStr(i),
   dimension |-> e5Dimension,
   metadata |-> [document |-> documentName, category |-> category, text |-> chunk.text,
                 speaker |-> chunk.speaker, chunkIndex |-> i, textLength |-> Len(chunk.text)]]

\* the bodies POST /api/upsert is called with; <<>> stands for a missing field
DocumentNames == {<<>>, <<"H","a","m"," ","l","e","t","-","1",".","t","x","t">>, <<"S","o","n","n","e","t","s">>}
Categories == {<<>>, <<"P","l","a","y">>, <<"S","o","n","n","e","t">>}
Texts == {<<>>, <<"I","n","t","r","o","\n","A","."," ","o","n","e","\n","H","A","M","L","E","T","."," ","T","o"," ","b","e","\n","o","r"," ","n","o","t","\n","\n","F","I","R","S","T"," ","L","O","R","D","."," ","G","o",".","\n">>, <<"n","o"," ","c","u","e"," ","h","e","r","e","."," ","n","o","n","e">>,
          textOf(normalSize + 2, -1, -1, "a")}

\* POST /api/upsert arrives: the handler up to its first await
UploadArrive(documentName, text, category) ==
  /\ upload.pc = "idle"
  /\ IF ~Truthy(documentName) \/ ~Truthy(text) \/ ~Truthy(category)
     THEN upload' = [upload EXCEPT !.pc = "done", !.status = 400]
     ELSE LET cs == IF category = <<"P","l","a","y">>
                    THEN chunkBySpeak(text)
                    ELSE chunkNormally(text, normalSize, normalOverlap)
          IN  upload' = [upload EXCEPT !.documentName = documentName, !.category = category,
                                       !.chunks = cs,
                                       !.pc = IF 0 < Len(cs) THEN "embed" ELSE "upsert"]
  /\ UNCHANGED <<local, remote, handled, normal>>

\* mutant of UploadEmbed: each vector is upserted as soon as it is built
UploadEmbedStreams ==
  /\ upload.pc = "embed"
  /\ \E outcome \in {"ok", "error"} :
       IF outcome = "ok"
       THEN LET vector == uploadVector(upload.documentName, upload.category,
                                       upload.chunks[upload.i + 1], upload.i)
            IN  /\ upload' = [upload EXCEPT
                     !.calls = Append(@, "embed"),
                     !.vectors = Append(@, vector),
                     !.i = @ + 1,
                     !.pc = IF upload.i + 1 < Len(upload.chunks) THEN "embed" ELSE "upsert"]
                /\ store' = IF indexDimension # 0 THEN upsert(store, <<vector>>) ELSE store
       ELSE /\ upload' = [upload EXCEPT !.calls = Append(@, "embed"),
                                        !.pc = "done", !.status = 500]
            /\ UNCHANGED store
  /\ UNCHANGED <<local, handled, normal, indexDimension, indexReady, vectorsJson, ingest,
                 server, requests, sent>>

\* await generateEmbedding(chunk.text) returns or throws: one pass of the loop
UploadEmbed ==
  /\ upload.pc = "embed"
  /\ \E outcome \in {"ok", "error"} :
       IF outcome = "ok"
       THEN upload' = [upload EXCEPT
              !.calls = Append(@, "embed"),
              !.vectors = Append(@, uploadVector(upload.documentName, upload.category,
                                                 upload.chunks[upload.i + 1], upload.i)),
              !.i = @ + 1,
              !.pc = IF upload.i + 1 < Len(upload.chunks) THEN "embed" ELSE "upsert"]
       ELSE upload' = [upload EXCEPT !.calls = Append(@, "embed"),
                                     !.pc = "done", !.status = 500]
  /\ UNCHANGED <<local, remote, handled, normal>>

\* await index.upsert(vectors) returns or throws, and the handler answers; the
\* call throws when the index does not exist
UploadUpsert ==
  /\ upload.pc = "upsert"
  /\ \E outcome \in (IF indexDimension # 0 THEN {"ok", "error"} ELSE {"error"}) :
       /\ store' = IF outcome = "ok" THEN upsert(store, upload.vectors) ELSE store
       /\ upload' = [upload EXCEPT !.calls = Append(@, "upsert"),
                                   !.pc = "done",
                                   !.status = IF outcome = "ok" THEN 200 ELSE 500]
  /\ UNCHANGED <<local, handled, normal, indexDimension, indexReady, vectorsJson, ingest,
                 server, requests, sent>>

\* the earlier server with one document uploaded
UploadInit ==
  /\ IndexInit
  /\ vectorsJson = <<>>

UploadNext ==
  \/ \E documentName \in DocumentNames, text \in Texts, category \in Categories :
       UploadArrive(documentName, text, category)
  \/ UploadEmbed
  \/ UploadUpsert

UploadSpec == UploadInit /\ [][UploadNext]_vars

(* ====================================================================== *)
(*                               properties                               *)
(* ====================================================================== *)
Max(S) == CHOOSE x \in S : \A y \in S : x >= y

\* the raw chunks cleanChunks keeps, by their index in the raw sequence
keptIndices == SelectSeq([i \in 1..Len(chunks) |-> i], LAMBDA i : keepChunk(chunks[i]))

\* the catalog title of the nearest work-title line before line n of the input,
\* "UNKNOWN" when no work-title line precedes it
NearestTitle(n) ==
  LET ts == {m \in 1..(n - 1) : workMatch(Trim(lines[m])) # null}
  IN  IF ts = {} THEN UNKNOWN ELSE workMatch(Trim(lines[Max(ts)]))

\* C1: every raw chunk, and every chunk of the final output, has as its work the
\* catalog title matched by the nearest work-title line before the first line of
\* its text, or "UNKNOWN" if there is none; an input without any work-title line
\* yields only chunks of work "UNKNOWN".
C1_WorkAttribution ==
  /\ \A i \in DOMAIN chunks : origin[i] >= 1 /\ chunks[i].work = NearestTitle(origin[i])
  /\ pc = "done" =>
       /\ \A j \in DOMAIN cleanedChunks :
             cleanedChunks[j].work = NearestTitle(origin[keptIndices[j]])
       /\ (\A m \in DOMAIN lines : workMatch(Trim(lines[m])) = null) =>
             \A j \in DOMAIN cleanedChunks : cleanedChunks[j].work = UNKNOWN

\* C1 witness: the final output holds a chunk of THE TEMPEST whose text follows a
\* title line of THE TEMPEST that itself follows a title line of THE SONNETS
C1_Witness ==
  /\ pc = "done"
  /\ \E j \in DOMAIN cleanedChunks :
       /\ cleanedChunks[j].work = shakespeareWorks[32]
       /\ \E a, b \in DOMAIN lines :
            /\ a < b /\ b < origin[keptIndices[j]]
            /\ lines[a] = shakespeareWorks[1] /\ lines[b] = shakespeareWorks[32]

\* C2: the ids of the n chunks cleanChunks returns are 0..n-1 in order, and the
\* chunks are the kept raw chunks in their emission order, whatever ids the raw
\* chunks carried (the parts of one split share one raw id).
C2_ContiguousIds ==
  pc = "done" =>
    /\ \A j \in DOMAIN cleanedChunks : cleanedChunks[j].id = j - 1
    /\ Len(cleanedChunks) = Len(keptIndices)
    /\ \A j \in DOMAIN cleanedChunks : cleanedChunks[j].text = chunks[keptIndices[j]].text

\* C2 witness: two parts of one split share a raw id, an earlier raw chunk was
\* dropped, and both parts are in the output
C2_Witness ==
  /\ pc = "done"
  /\ Len(cleanedChunks) >= 2
  /\ Len(cleanedChunks) < Len(chunks)
  /\ \E i \in DOMAIN chunks : i + 1 \in DOMAIN chunks /\ chunks[i].id = chunks[i + 1].id
  /\ \E j \in DOMAIN cleanedChunks : cleanedChunks[j].id # chunks[keptIndices[j]].id

\* the chunks the step appends to the raw chunks
newChunks == SubSeq(chunks', Len(chunks) + 1, Len(chunks'))

\* a step in which saveCurrentChunk split the accumulated text into two or more parts
SplitStep == pc = "scan" /\ ~inSonnets /\ Len(chunks') >= Len(chunks) + 2

\* "S (Part i)"
PartName(S, i) == S \o <<" ">> \o <<"(","P","a","r","t">> \o <<" ">> \o NatToStr(i) \o <<")">>

\* C3 as claimed: of the k >= 2 parts of a split chunk of speaker S, the first has
\* speaker S and the i-th, i = 2..k, has speaker "S (Part i)".
C3_FirstPartBare ==
  [][SplitStep /\ currentSpeaker # null =>
       /\ newChunks[1].speaker = currentSpeaker
       /\ \A i \in 2..Len(newChunks) : newChunks[i].speaker = PartName(currentSpeaker, i)]_vars

\* C3 as amended: of the k >= 2 parts of a split chunk of speaker S, the i-th part
\* has speaker "S (Part i)" for every i = 1..k, the first part included.
C3_PartLabels ==
  [][SplitStep /\ currentSpeaker # null =>
       \A i \in 1..Len(newChunks) : newChunks[i].speaker = PartName(currentSpeaker, i)]_vars

\* C3 witness: a chunk of speaker HAMLET was split into three parts
C3_Witness ==
  \E i \in DOMAIN chunks :
    /\ i + 2 \in DOMAIN chunks
    /\ chunks[i].id = chunks[i + 1].id /\ chunks[i].id = chunks[i + 2].id
    /\ StartsWith(chunks[i + 2].speaker, <<"H","A","M","L","E","T">>)

\* the sentences of all the parts, in part order
RECURSIVE SentencesOf(_)
SentencesOf(parts) ==
  IF parts = <<>> THEN <<>>
  ELSE splitSentences(parts[1].text) \o SentencesOf(Tail(parts))

\* C4: when a chunk of more than 800 characters is split, every part has at most 800
\* characters unless it is one single sentence of the chunk; and every sentence of
\* the chunk that is longer than 800 characters is the whole text of a part.
C4_PartSize ==
  [][SplitStep =>
       LET sentences == splitSentences(Trim(currentChunk))
       IN  /\ Len(Trim(currentChunk)) > 800
           /\ \A i \in DOMAIN newChunks :
                \/ Len(newChunks[i].text) <= 800
                \/ \E n \in DOMAIN sentences :
                      Len(sentences[n]) > 800 /\ newChunks[i].text = sentences[n]
           /\ \A n \in DOMAIN sentences :
                Len(sentences[n]) > 800 =>
                  \E i \in DOMAIN newChunks : newChunks[i].text = sentences[n]]_vars

\* C4 witness: a split produced a part of more than 800 characters next to another
\* part of the same chunk
C4_Witness ==
  \E i, j \in DOMAIN chunks :
    i # j /\ chunks[i].id = chunks[j].id /\ Len(chunks[i].text) > 800

\* C5: the sentences of the parts of a split chunk, taken in part order, are the
\* sentences of the chunk: none lost, none duplicated, none out of order.
C5_SentencesKept ==
  [][SplitStep => SentencesOf(newChunks) = splitSentences(Trim(currentChunk))]_vars

\* C5 witness: a split put two sentences into one part and a third into the next
C5_Witness ==
  \E i \in DOMAIN chunks :
    /\ i + 1 \in DOMAIN chunks
    /\ chunks[i].id = chunks[i + 1].id
    /\ Len(splitSentences(chunks[i].text)) >= 2

lastLine == lines[Len(lines)]

\* a line that, trimmed, is purely a decimal integer
IsDecimal(t) == t # <<>> /\ AllIn(t, 1, Len(t), Digit)

\* C6: in THE SONNETS a line that, trimmed, is purely a decimal integer n starts a
\* new sonnet of number n, and the lines after it are emitted as one chunk of work
\* "THE SONNETS" and speaker "SONNET n": the text THE SONNETS / 18 / To be, or not
\* to be. yields exactly that chunk.
C6_SonnetNumberRecognized ==
  /\ (pc = "scan" /\ Len(lines) >= 1 /\ inSonnets /\ IsDecimal(Trim(lastLine))) =>
        sonnetNumber = Trim(lastLine) /\ sonnetText = <<>>
  /\ (pc = "raw" /\ lines = <<Lines[4], Lines[5], Lines[9]>>) =>
        chunks = << [id |-> 0, work |-> THE_SONNETS,
                     speaker |-> <<"S","O","N","N","E","T"," ","1","8">>,
                     text |-> <<"T","o"," ","b","e",","," ","o","r"," ","n","o","t"," ","t","o"," ","b","e",".">>] >>

\* C7: the end of the input flushes the dialogue text held under the active speaker
\* and the sonnet in progress as the last raw chunk; the text HAMLET. / To be, or
\* not to be. / (empty last line) yields exactly one chunk, of work "UNKNOWN",
\* speaker "HAMLET" and text "To be, or not to be.".
C7_EndOfInputFlush ==
  /\ (pc = "raw" /\ Trim(currentChunk) # <<>>) =>
        /\ chunks # <<>>
        /\ chunks[Len(chunks)].work = currentWork
        /\ chunks[Len(chunks)].speaker = currentSpeaker
        /\ chunks[Len(chunks)].text = Trim(currentChunk)
  /\ (pc = "raw" /\ inSonnets /\ Trim(sonnetText) # <<>>) =>
        /\ chunks # <<>>
        /\ chunks[Len(chunks)].work = THE_SONNETS
        /\ chunks[Len(chunks)].speaker = <<"S","O","N","N","E","T"," ">> \o sonnetNumber
        /\ chunks[Len(chunks)].text = Trim(sonnetText)
  /\ (pc \in {"raw", "done"} /\ lines = <<Lines[2], Lines[9], Lines[1]>>) =>
        /\ chunks = << [id |-> 0, work |-> UNKNOWN,
                        speaker |-> <<"H","A","M","L","E","T">>,
                        text |-> <<"T","o"," ","b","e",","," ","o","r"," ","n","o","t"," ","t","o"," ","b","e",".">>] >>
        /\ pc = "done" =>
             /\ Len(cleanedChunks) = 1
             /\ cleanedChunks[1].work = UNKNOWN
             /\ cleanedChunks[1].speaker = <<"H","A","M","L","E","T">>
             /\ cleanedChunks[1].text = <<"T","o"," ","b","e",","," ","o","r"," ","n","o","t"," ","t","o"," ","b","e",".">>

\* C7 witness: the scenario text has been read to its end and cleaned
C7_Witness ==
  pc = "done" /\ lines = <<Lines[2], Lines[9], Lines[1]>> /\ Len(cleanedChunks) = 1

\* a line the classifier takes for a stage direction: no work title (that test runs
\* first), and either one of the nine markers at its start or brackets around it
IsStageDirection(line) ==
  LET t == Trim(line)
  IN  /\ workMatch(t) = null
      /\ \/ \E m \in { <<"A","C","T">>, <<"S","C","E","N","E">>, <<"E","P","I","L","O","G","U","E">>, <<"P","R","O","L","O","G","U","E">>, <<"E","N","T","E","R">>,
                       <<"E","X","I","T">>, <<"E","X","E","U","N","T">>, <<"A","L","A","R","U","M">>, <<"F","L","O","U","R","I","S","H">> } :
               StartsWith(t, m)
         \/ Len(t) >= 2 /\ t[1] = "[" /\ t[Len(t)] = "]"

\* stage-direction lines beyond those of the corpora: each marker alone, numbered,
\* with a period, in the plural, and followed by a name; and bracketed lines
StageSamples ==
  { m \o s : m \in stageMarkers,
             s \in { <<>>, <<" ","I">>, <<".">>, <<"S",".">>, <<" ","H","A","M","L","E","T">>, <<" ","H","A","M","L","E","T",".">> } }
  \cup { <<"[","E","x","i","t","]">>, <<"[","A"," ","C","R","Y"," ","W","I","T","H","I","N",".","]">>, <<"[","H","A","M","L","E","T","]">> }

\* no such line is taken for a speaker cue, so each reaches the stage-direction tests
StageSamplesAreNoCues ==
  \A l \in StageSamples :
    IsStageDirection(l) /\ isSpeakerLine(Trim(l)) = null
      /\ (isStageMarker(Trim(l)) \/ isBracketed(Trim(l)))

\* C8: in play/prose mode a stage-direction line changes nothing of the segmenter:
\* work, speaker, accumulated text, id counter, sonnet state and raw chunks stay.
C8_StageDirectionIgnored ==
  [][/\ StageSamplesAreNoCues
     /\ (pc = "scan" /\ ~inSonnets /\ Len(lines') = Len(lines) + 1
           /\ IsStageDirection(lines'[Len(lines')]))
        => UNCHANGED segmenter]_vars

\* C8 witness: a stage direction was read while HAMLET's speech was accumulating
C8_Witness ==
  /\ pc = "scan" /\ ~inSonnets /\ Len(lines) >= 3
  /\ IsStageDirection(lastLine)
  /\ currentSpeaker = <<"H","A","M","L","E","T">>
  /\ currentChunk # <<>>

\* C9: no chunk of the final output has trimmed text shorter than 10 characters.
C9_FilterStrictness ==
  pc = "done" => \A j \in DOMAIN cleanedChunks : Len(Trim(cleanedChunks[j].text)) >= 10

\* C9 witness: a raw chunk of fewer than 10 characters was dropped and another kept
C9_Witness ==
  /\ pc = "done"
  /\ \E i \in DOMAIN chunks : Len(chunks[i].text) < 10
  /\ cleanedChunks # <<>>

\* a text that is one bracketed stage direction: "[", anything on one line, "]",
\* with optional whitespace around it
IsBracketedText(text) ==
  LET t == Trim(text)
  IN  /\ Len(t) >= 2 /\ t[1] = "[" /\ t[Len(t)] = "]"
      /\ \A j \in 2..(Len(t) - 1) : t[j] \notin {"\n", "\r"}

\* C10: cleanChunks drops every chunk whose text is one bracketed stage direction,
\* whatever its length: the final output holds no such chunk.
C10_BracketedDropped ==
  pc = "done" => \A j \in DOMAIN cleanedChunks : ~IsBracketedText(cleanedChunks[j].text)

\* a text of nothing but punctuation marks and whitespace
IsPunctuationText(text) ==
  \A j \in DOMAIN text : text[j] \in {".", ",", ";", ":", "!", "?", "-"} \cup WS

\* C11: cleanChunks drops every chunk whose text is nothing but punctuation and
\* whitespace, also one of 10 characters or more: the final output holds no such
\* chunk.
C11_PunctuationDropped ==
  pc = "done" => \A j \in DOMAIN cleanedChunks : ~IsPunctuationText(cleanedChunks[j].text)

\* a text of nothing but digits and the Roman-numeral letters I, V, X
IsNumeralText(text) ==
  /\ text # <<>>
  /\ \A j \in DOMAIN text : text[j] \in Digit \cup {"I", "V", "X", "i", "v", "x"}

\* C12: cleanChunks drops every chunk whose text is nothing but digits and
\* Roman-numeral letters, also one of 10 characters or more: the final output
\* holds no such chunk.
C12_NumeralDropped ==
  pc = "done" => \A j \in DOMAIN cleanedChunks : ~IsNumeralText(cleanedChunks[j].text)

\* C13: no raw chunk and no chunk of the final output has a text that is empty
\* after trimming, and a flush that finds both accumulators empty (two speaker
\* cues in a row, a title straight after a cue) adds no chunk.
C13_NoEmptyChunk ==
  [][/\ \A i \in DOMAIN chunks' : Trim(chunks'[i].text) # <<>>
     /\ \A j \in DOMAIN cleanedChunks' : Trim(cleanedChunks'[j].text) # <<>>
     /\ (pc = "scan" /\ Trim(currentChunk) = <<>> /\ Trim(sonnetText) = <<>>)
           => chunks' = chunks]_vars

\* C13 witness: a speaker cue, then a second cue (a flush of an empty accumulator),
\* then a title straight after a cue (another one); no chunk comes of them
C13_Witness ==
  /\ pc = "done"
  /\ Len(lines) = 4
  /\ isSpeakerLine(Trim(lines[1])) # null
  /\ isSpeakerLine(Trim(lines[2])) # null
  /\ lines[3] = shakespeareWorks[32]
  /\ chunks = <<>>
  /\ cleanedChunks = <<>>

\* C14: every flush, of a dialogue chunk or of a sonnet chunk, goes through
\* splitLargeChunk: no raw chunk has more than 800 characters and more than one
\* sentence.
C14_EveryFlushSplit ==
  \A i \in DOMAIN chunks :
    Len(chunks[i].text) <= maxSize \/ Len(splitSentences(chunks[i].text)) <= 1

\* the catalog titles that a line contains, as the whole line or as a part of it
TitlesIn(line) ==
  {w \in DOMAIN shakespeareWorks : Includes(Trim(line), shakespeareWorks[w])}

\* the step reads one more line of the input
ReadsLine == pc = "scan" /\ Len(lines') = Len(lines) + 1

\* C15: in every mode a line that contains a catalog title is handled as a work
\* boundary before any other classification: the step that reads it makes one of
\* its titles the current work, leaves no speaker and no sonnet number set after
\* it, leaves both accumulators empty, and no raw chunk ever holds the line's text.
C15_TitleFirst ==
  [][(ReadsLine /\ TitlesIn(lines'[Len(lines')]) # {}) =>
       LET line == lines'[Len(lines')]
       IN  /\ \E w \in TitlesIn(line) : currentWork' = shakespeareWorks[w]
           /\ currentSpeaker' = null
           /\ sonnetNumber' = null
           /\ currentChunk' = <<>>
           /\ sonnetText' = <<>>
           /\ \A i \in DOMAIN chunks' : ~Includes(chunks'[i].text, Trim(line))]_vars

\* C15 witness: after a cue and a line of speech, a line that embeds the title
\* THE TEMPEST in other text has been read as a boundary
C15_Witness ==
  /\ Len(lines) = 3
  /\ isSpeakerLine(Trim(lines[1])) # null
  /\ lines[3] # shakespeareWorks[32]
  /\ TitlesIn(lines[3]) = {32}
  /\ currentWork = shakespeareWorks[32]
  /\ currentSpeaker = null
  /\ Len(chunks) = 1

\* the raw chunks that the step adds, by their places in the raw sequence
AddedChunks == (Len(chunks) + 1)..Len(chunks')

\* C16: the step that reads a work-title line first flushes the dialogue chunk and
\* the sonnet in progress under the previous work, then sets the current work and
\* clears the speaker, the chunk text, the sonnet number and the sonnet text; and
\* whenever a chunk is flushed, no line from the first line of its text to the
\* last line read before the flush is a work-title line.
C16_TitleFlush ==
  [][/\ (ReadsLine /\ TitlesIn(lines'[Len(lines')]) # {}) =>
          /\ \A i \in AddedChunks : chunks'[i].work = currentWork
          /\ Trim(currentChunk) # <<>> => AddedChunks # {}
          /\ (inSonnets /\ Trim(sonnetText) # <<>>) =>
                /\ AddedChunks # {}
                /\ chunks'[Len(chunks')].text = Trim(sonnetText)
          /\ SubSeq(chunks', 1, Len(chunks)) = chunks
          /\ \E w \in TitlesIn(lines'[Len(lines')]) : currentWork' = shakespeareWorks[w]
          /\ currentSpeaker' = null /\ currentChunk' = <<>>
          /\ sonnetNumber' = null /\ sonnetText' = <<>>
     /\ \A i \in AddedChunks :
          /\ origin'[i] >= 1
          /\ \A m \in origin'[i]..Len(lines) : TitlesIn(lines[m]) = {}]_vars

\* C16 witness: a speech before a title line of THE TEMPEST was flushed under the
\* work before it, and a speech after the line under THE TEMPEST
C16_Witness ==
  /\ pc = "raw"
  /\ Len(lines) = 5
  /\ lines[3] = shakespeareWorks[32]
  /\ Len(chunks) = 2
  /\ chunks[1].work = UNKNOWN /\ origin[1] = 2
  /\ chunks[2].work = shakespeareWorks[32] /\ origin[2] = 5

\* the sum of the counts of a mapping
RECURSIVE SumOfCounts(_)
SumOfCounts(f) ==
  IF DOMAIN f = {} THEN 0
  ELSE LET key == CHOOSE x \in DOMAIN f : TRUE
       IN  f[key] + SumOfCounts([x \in DOMAIN f \ {key} |-> f[x]])

\* C17: the empty input text gives an empty final chunk list and
\* stats.totalChunks = 0; for every input stats.totalChunks is the number of final
\* chunks and the counts per work sum to stats.totalChunks.
C17_StatsTotals ==
  pc = "done" =>
    /\ stats.totalChunks = Len(cleanedChunks)
    /\ SumOfCounts(stats.works) = stats.totalChunks
    /\ \A w \in DOMAIN stats.works : stats.works[w] >= 1
    /\ lines = << <<>> >> => (cleanedChunks = <<>> /\ stats.totalChunks = 0)

\* C17 witness: the statistics of a text of two works, one final chunk of each
C17_Witness ==
  /\ pc = "done"
  /\ Len(cleanedChunks) = 2
  /\ stats.totalChunks = 2
  /\ DOMAIN stats.works = {UNKNOWN, shakespeareWorks[32]}
  /\ stats.works[UNKNOWN] = 1
  /\ stats.works[shakespeareWorks[32]] = 1

\* the number of whitespace-delimited tokens of s from character i on that hold
\* a letter or a digit; counted: the token at i has been counted already
RECURSIVE Tally(_, _, _)
Tally(s, i, counted) ==
  IF i > Len(s) THEN 0
  ELSE IF s[i] \in WS THEN Tally(s, i + 1, FALSE)
  ELSE IF ~counted /\ s[i] \in Upper \cup Lower \cup Digit THEN 1 + Tally(s, i + 1, TRUE)
  ELSE Tally(s, i + 1, counted)

\* C18: every chunk of the final output has textLength equal to the number of
\* characters of its text and wordCount equal to the number of its
\* whitespace-delimited tokens that hold at least one letter or digit.
C18_Metrics ==
  pc = "done" =>
    \A j \in DOMAIN cleanedChunks :
      /\ cleanedChunks[j].textLength = Len(cleanedChunks[j].text)
      /\ cleanedChunks[j].wordCount = Tally(cleanedChunks[j].text, 1, FALSE)

\* C18 witness: a final chunk of two lines, 33 characters and seven tokens, of
\* which the six with letters are its words
C18_Witness ==
  /\ pc = "done"
  /\ \E j \in DOMAIN cleanedChunks :
       /\ cleanedChunks[j].text = Lines[9] \o <<"\n">> \o Lines[15]
       /\ cleanedChunks[j].textLength = 33
       /\ cleanedChunks[j].wordCount = 6

C21_SmallChunkWhole ==
  [][(pc = "scan" /\ ~inSonnets /\ chunks' # chunks /\ Len(Trim(currentChunk)) <= 800) =>
       newChunks = << [id |-> chunkId, work |-> currentWork,
                       speaker |-> currentSpeaker, text |-> Trim(currentChunk)] >>]_vars

\* C21 witness: a speech of two sentences and exactly 800 characters is one raw
\* chunk under the bare speaker
C21_Witness ==
  /\ Len(chunks) = 1
  /\ Len(chunks[1].text) = 800
  /\ Len(splitSentences(chunks[1].text)) = 2
  /\ chunks[1].speaker = <<"H","A","M","L","E","T">>
  /\ chunks[1].id = 0

\* a line of body text: not blank, without a catalog title, not a speaker cue and
\* not a stage direction
IsBodyLine(line) ==
  /\ Trim(line) # <<>>
  /\ TitlesIn(line) = {}
  /\ isSpeakerLine(Trim(line)) = null
  /\ ~isStageMarker(Trim(line))
  /\ ~isBracketed(Trim(line))

\* C24: in play mode a body line read while no speaker is active (before the
\* first cue, or between a title line and the next cue) is dropped: the step
\* changes no segmenter state and adds no chunk, and the line does not become
\* the first line of any chunk.
C24_BodyWithoutSpeaker ==
  [][(ReadsLine /\ ~inSonnets /\ currentSpeaker = null /\ IsBodyLine(lines'[Len(lines')])) =>
       /\ UNCHANGED <<segmenter, chunkStart>>
       /\ \A i \in DOMAIN chunks' : origin'[i] # Len(lines')]_vars

\* C24 witness: a body line follows a title line that ended HAMLET's speech; the
\* text has given the one chunk of that speech
C24_Witness ==
  /\ pc = "raw"
  /\ Len(lines) = 4
  /\ lines[3] = shakespeareWorks[32]
  /\ IsBodyLine(lines[4])
  /\ IsBodyLine(lines[2])
  /\ Len(chunks) = 1
  /\ chunks[1].text = Trim(lines[2])
  /\ currentSpeaker = null

\* C25: after any sequence of input lines inSonnets is true exactly when the
\* current work is "THE SONNETS", and whenever inSonnets is false the sonnet
\* number is null and the sonnet text is empty.
C25_SonnetMode ==
  /\ inSonnets <=> (currentWork = <<"T","H","E"," ","S","O","N","N","E","T","S">>)
  /\ ~inSonnets => (sonnetNumber = null /\ sonnetText = <<>>)

\* C25 witness: a title line of another work has ended the sonnets while a sonnet
\* with a number and one line of text was in progress
C25_Witness ==
  /\ Len(lines) = 4
  /\ lines[1] = <<"T","H","E"," ","S","O","N","N","E","T","S">>
  /\ lines[4] = shakespeareWorks[32]
  /\ Len(chunks) = 1
  /\ chunks[1].speaker = <<"S","O","N","N","E","T"," ","1","8">>
  /\ ~inSonnets
  /\ currentWork = shakespeareWorks[32]

\* line m of the input is a work-title line
IsTitleAt(m) == TitlesIn(lines[m]) # {}

\* line m of the input is a speaker cue read in play mode
IsCueAt(m) ==
  /\ ~IsTitleAt(m)
  /\ NearestTitle(m) # THE_SONNETS
  /\ isSpeakerLine(Trim(lines[m])) # null

\* the body lines among lines m .. e-1 of the input, each followed by a newline
RECURSIVE BodyFrom(_, _)
BodyFrom(m, e) ==
  IF m >= e THEN <<>>
  ELSE (IF IsBodyLine(lines[m]) THEN lines[m] \o <<"\n">> ELSE <<>>) \o BodyFrom(m + 1, e)

\* the first line after line o that is a speaker cue or a title line, or the
\* place after the last line
SpeechEnd(o) ==
  LET enders == {m \in (o + 1)..Len(lines) : IsCueAt(m) \/ IsTitleAt(m)}
  IN  IF enders = {} THEN Len(lines) + 1 ELSE Min(enders)

\* C26: in play mode every raw dialogue chunk, before any splitting, carries the
\* label of the speaker cue before its first line, and its text is the body
\* lines (not blank, not stage directions) from that cue to the next speaker cue,
\* title line or end of input, in input order, joined by newlines and trimmed.
C26_SpeechText ==
  \A i \in DOMAIN chunks :
    chunks[i].work # THE_SONNETS =>
      LET cues == {m \in 1..(origin[i] - 1) : IsCueAt(m)}
      IN  /\ cues # {}
          /\ chunks[i].speaker = isSpeakerLine(Trim(lines[Max(cues)]))
          /\ chunks[i].text = Trim(BodyFrom(Max(cues) + 1, SpeechEnd(origin[i])))
          /\ \A m \in Max(cues)..(origin[i] - 1) : ~IsTitleAt(m)

\* C26 witness: HAMLET's speech of two lines with a blank line between them was
\* flushed by the next cue as one chunk of the two lines
C26_Witness ==
  /\ Len(lines) = 5
  /\ IsCueAt(1) /\ IsCueAt(5)
  /\ lines[3] = <<>>
  /\ Len(chunks) = 1
  /\ chunks[1].text = lines[2] \o <<"\n">> \o lines[4]
  /\ chunks[1].speaker = <<"H","A","M","L","E","T">>
  /\ currentChunk = <<>>

\* the label a line offers as a speaker: the trimmed line without its final period
LabelOf(line) ==
  LET t == Trim(line)
  IN  IF t # <<>> /\ t[Len(t)] = "." THEN Trim(SubSeq(t, 1, Len(t) - 1)) ELSE t

\* the structural markers that the claim lists
DeniedMarkers ==
  { <<"A","C","T">>, <<"S","C","E","N","E">>, <<"E","P","I","L","O","G","U","E">>,
    <<"P","R","O","L","O","G","U","E">>, <<"C","H","O","R","U","S">>,
    <<"C","O","N","T","E","N","T","S">>, <<"E","N","T","E","R">>, <<"E","X","I","T">>,
    <<"E","X","E","U","N","T">>, <<"A","L","A","R","U","M">>,
    <<"F","L","O","U","R","I","S","H">>, <<"S","E","N","N","E","T">>,
    <<"H","A","U","T","B","O","Y","S">>, <<"T","R","U","M","P","E","T","S">>,
    <<"D","R","U","M","S">> }

\* the label of the line starts with a listed marker, is a number, is a Roman
\* numeral of the letters I, V, X, or has fewer than 2 or more than 49 characters
IsDeniedLabel(line) ==
  LET label == LabelOf(line)
  IN  \/ \E m \in DeniedMarkers : StartsWith(label, m)
      \/ label # <<>> /\ \A j \in DOMAIN label : label[j] \in Digit
      \/ label # <<>> /\ \A j \in DOMAIN label : label[j] \in {"I", "V", "X"}
      \/ Len(label) < 2 \/ Len(label) > 49

\* C27: isSpeakerLine gives null for every line whose label starts with or is a
\* listed marker, is purely numeric, is purely Roman numerals or has a length
\* outside 2..49; in play mode such a line (one without a catalog title) never
\* changes the active speaker and never causes a flush.
C27_DeniedLabelNoCue ==
  [][(ReadsLine /\ ~inSonnets /\ TitlesIn(lines'[Len(lines')]) = {}
        /\ IsDeniedLabel(lines'[Len(lines')])) =>
       /\ isSpeakerLine(Trim(lines'[Len(lines')])) = null
       /\ currentSpeaker' = currentSpeaker
       /\ chunks' = chunks]_vars

\* what cleanChunks must leave as it is in a chunk
CoreOf(c) == [work |-> c.work, speaker |-> c.speaker, text |-> c.text]

\* the chunks of s are, in their order, chunks of t with the same work, speaker
\* and text
RECURSIVE IsSubSeqOf(_, _)
IsSubSeqOf(s, t) ==
  IF s = <<>> THEN TRUE
  ELSE IF t = <<>> THEN FALSE
  ELSE IF CoreOf(s[1]) = CoreOf(t[1]) THEN IsSubSeqOf(Tail(s), Tail(t))
  ELSE IsSubSeqOf(s, Tail(t))

\* C28: cleanChunks only sets id and adds textLength and wordCount: the chunks of
\* its result are chunks of its input with the work, speaker and text they had,
\* in their relative order, with these six fields and no other; and the input
\* list and its chunks are what they were before the call.
C28_CleanFrame ==
  [][(pc = "raw" /\ pc' = "done") =>
       /\ chunks' = chunks
       /\ IsSubSeqOf(cleanedChunks', chunks)
       /\ \A j \in DOMAIN cleanedChunks' :
            DOMAIN cleanedChunks'[j] = {"id", "work", "speaker", "text", "textLength", "wordCount"}]_vars

\* C28 witness: of two raw chunks the first was dropped; the raw chunks keep
\* their ids 0, 1 after the call and the survivor has the id 0 in the result
C28_Witness ==
  /\ pc = "done"
  /\ Len(chunks) = 2
  /\ Len(cleanedChunks) = 1
  /\ chunks[1].id = 0 /\ chunks[2].id = 1
  /\ cleanedChunks[1].id = 0
  /\ CoreOf(cleanedChunks[1]) = CoreOf(chunks[2])

\* C29: in sonnet mode a sonnet-number line (a line that is a decimal number)
\* flushes the sonnet in progress under the previous number, then starts the
\* sonnet of its own number with an empty text, so no chunk holds lines from
\* beyond the next number line; a non-empty line read before any sonnet number
\* is dropped.
C29_SonnetNumberFlush ==
  [][(ReadsLine /\ inSonnets /\ TitlesIn(lines'[Len(lines')]) = {}) =>
       LET t == Trim(lines'[Len(lines')])
       IN  /\ IsDecimal(t) =>
                /\ chunks' = IF Trim(sonnetText) # <<>>
                             THEN Append(chunks,
                                    [id |-> chunkId, work |-> currentWork,
                                     speaker |-> <<"S","O","N","N","E","T"," ">> \o sonnetNumber,
                                     text |-> Trim(sonnetText)])
                             ELSE chunks
                /\ sonnetNumber' = t
                /\ sonnetText' = <<>>
           /\ (~IsDecimal(t) /\ t # <<>> /\ sonnetNumber = null) => UNCHANGED segmenter]_vars

\* the ids of the vectors the calls sent, in the order they were sent
RECURSIVE UpsertedIds(_)
UpsertedIds(cs) == IF cs = <<>> THEN <<>> ELSE cs[1].ids \o UpsertedIds(Tail(cs))

\* C23: upsertVectorsToPinecone clears the index before any upsert, then
\* upserts every cleaned chunk exactly once, in id order, in consecutive batches
\* of at most 100 chunks, each batch awaited before the next is sent; when it
\* returns success the number of vectors upserted is the number of cleaned chunks
C23_ClearThenBatches ==
  LET cs == ingest.calls
      ids == UpsertedIds(cs)
  IN  /\ \A k \in 1..Len(cs) : (cs[k].op = "deleteAll") <=> (k = 1)
      /\ \A k \in 2..Len(cs) :
           /\ Len(cs[k].ids) \in 1..100
           /\ cs[k].ids = [j \in 1..Len(cs[k].ids) |->
                             NatToStr(ingest.chunks[(k - 2) * 100 + j].id)]
           /\ k < Len(cs) => Len(cs[k].ids) = 100
      /\ Len(ids) <= Len(ingest.chunks)
      /\ \A j \in 1..Len(ids) : ids[j] = NatToStr(j - 1)
      /\ Len(ingest.pending) <= 1
      /\ ingest.pending # <<>> => ingest.pc = "await"
      /\ ingest.pc = "success" =>
           /\ ingest.chunks = vectorsJson
           /\ Len(ids) = Len(ingest.chunks)
           /\ ingest.result = <<[success |-> TRUE, vectorsUpserted |-> Len(ingest.chunks)]>>
           /\ ingest.pending = <<>>
      /\ ingest.pc # "success" => ingest.result = <<>>

C23_Witness ==
  /\ ingest.pc = "success"
  /\ Len(ingest.calls) = 3
  /\ Len(ingest.chunks) > 100

\* the vectors resetDatabase loads for the chunks cs, as the index would hold them
LoadedFrom(S, cs) ==
  /\ \A j \in 1..Len(cs) :
       /\ Cardinality({v \in S : v.id = NatToStr(cs[j].id)}) = 1
       /\ \A v \in S : v.id = NatToStr(cs[j].id) =>
            v.metadata = [work |-> cs[j].work, speaker |-> cs[j].speaker, text |-> cs[j].text,
                          textLength |-> cs[j].textLength, wordCount |-> cs[j].wordCount]
  /\ \A v \in S : \E j \in 1..Len(cs) : v.id = NatToStr(cs[j].id)

C30_OneDimension ==
  \A v \in sent : v.dimension = indexDimension

\* C31: every chunk the segmenter emits has a non-null speaker: a dialogue chunk
\* carries the active speaker, a chunk of the sonnets carries "SONNET <n>" with
\* the number n of a sonnet number line; no chunk of the output has the speaker
\* null, and the counts per speaker of stats sum to the number of chunks.
C31_SpeakerNeverNull ==
  /\ \A i \in DOMAIN chunks :
       /\ Truthy(chunks[i].speaker)
       /\ chunks[i].work = THE_SONNETS =>
            \E k \in DOMAIN Lines :
               /\ sonnetMatchOf[k] # null
               /\ chunks[i].speaker = <<"S","O","N","N","E","T"," ">> \o sonnetMatchOf[k]
  /\ \A j \in DOMAIN cleanedChunks : Truthy(cleanedChunks[j].speaker)
  /\ pc = "done" =>
       /\ SumOfCounts(stats.speakers) = stats.totalChunks
       /\ stats.totalChunks = Len(cleanedChunks)

\* C31 witness: a speech and a sonnet, both in the output and both counted
C31_Witness ==
  /\ pc = "done"
  /\ Len(cleanedChunks) = 2
  /\ cleanedChunks[1].work # THE_SONNETS
  /\ cleanedChunks[2].work = THE_SONNETS
  /\ SumOfCounts(stats.speakers) = 2

\* C32: the server takes requests before initializeIndex has finished; a
\* /api/query or /api/metrics request handled while the index handle is unset
\* makes no embedding call and no vector-store call and is answered 503, and a
\* /api/query request without a query makes neither call and is answered 400,
\* whether the handle is set or not
C32_NoCallWithoutHandle ==
  \A h \in {handled[j] : j \in DOMAIN handled} :
    h.route \in {"query", "metrics"} =>
      /\ (h.route = "query" /\ h.query = <<>>) =>
            (h.status = 400 /\ ~h.embedded /\ ~h.stored)
      /\ (~h.index /\ ~(h.route = "query" /\ h.query = <<>>)) =>
            (h.status = 503 /\ ~h.embedded /\ ~h.stored)

\* C32 witness: a query with its text was answered 503 while initializeIndex
\* waits for the index it created
C32_Witness ==
  /\ server.pc = "wait"
  /\ ~server.index
  /\ handled # <<>>
  /\ handled[1].route = "query"
  /\ handled[1].query # <<>>
  /\ handled[1].status = 503

\* C38: the topK that /api/query passes to the vector store never exceeds 100,
\* whatever the request supplies, and is 5 when the request supplies none
C38_TopKCapped ==
  \A h \in {handled[j] : j \in DOMAIN handled} :
    (h.route = "query" /\ h.stored) =>
      /\ h.passed # <<>>
      /\ h.passed[1] <= 100
      /\ h.topK = <<>> => h.passed[1] = 5
      /\ (h.topK # <<>> /\ h.topK[1] <= 100) => h.passed = h.topK

\* C38 witness: a request asked for more than 100 and 100 was passed
C38_Witness ==
  /\ handled # <<>>
  /\ handled[1].route = "query"
  /\ handled[1].stored
  /\ handled[1].topK # <<>>
  /\ handled[1].topK[1] > 100
  /\ handled[1].passed = <<100>>

\* C33: initializeIndex sets the server's index handle only when the index is
\* known to exist and, when it created the index itself, only after
\* describeIndex reported it ready; the polling loop ends with the poll that
\* finds the index ready; when the index becomes ready in the end,
\* initializeIndex completes in the end; an error during initialization ends
\* the process and leaves no handle set
C33_InitializeIndex ==
  /\ [](server.index => (indexDimension # 0 /\ server.pc = "up"))
  /\ [](server.index /\ server.created => indexReady)
  /\ [][(~server.index /\ server'.index) =>
          \/ server.pc = "listen" /\ indexDimension # 0
          \/ server.pc = "wait" /\ indexReady]_vars
  /\ [][(server.pc = "wait" /\ indexReady /\ server' # server) =>
          server'.pc \in {"up", "exited"}]_vars
  /\ [][(server.pc # "exited" /\ server'.pc = "exited") => ~server'.index]_vars
  /\ [](server.pc = "exited" => ~server.index)
  /\ <>(server.pc \in {"up", "exited"})

\* C33 witness: initializeIndex created the index, slept while it was not
\* ready, and has set the handle
C33_Witness ==
  /\ server.pc = "up"
  /\ server.index
  /\ server.created
  /\ indexReady

\* C34: in resetDatabase a deleteAll failure whose message contains "404" is
\* taken for an empty index and the reload goes on; any other deleteAll failure,
\* or a call while the index handle is unset, ends the reset with an error
\* before any vector is upserted, and /api/reset answers 500
C34_ResetErrors ==
  [][\A r \in 1..MaxRequests :
       /\ (requests[r].pc = "idle" /\ requests'[r].pc # "idle") =>
            /\ ~server.index =>
                 /\ requests'[r].calls = <<>>
                 /\ requests'[r].status = 500
                 /\ store' = store /\ sent' = sent
            /\ requests'[r].deleteAll = "error" =>
                 /\ requests'[r].calls = <<"deleteAll">>
                 /\ requests'[r].status = 500
                 /\ store' = store /\ sent' = sent
            /\ requests'[r].deleteAll = "404" =>
                 /\ store = {}
                 /\ requests'[r].chunks = vectorsJson
                 /\ requests'[r].status = IF vectorsJson = <<>> THEN 200 ELSE 0
                 /\ requests'[r].pc = IF vectorsJson = <<>> THEN "ok" ELSE "batch"
       /\ requests[r].status = 500 => requests'[r] = requests[r]
       /\ (requests[r].pc = "batch" /\ requests[r].deleteAll = "404" /\ requests'[r] # requests[r]
             /\ requests'[r].overtaken = requests[r].overtaken) =>
            /\ Len(requests'[r].calls) = Len(requests[r].calls) + 1
            /\ requests'[r].calls[Len(requests'[r].calls)] = "upsert"]_vars

\* C34 witness: one reset failed on a deleteAll error without upserting, another
\* got a 404 from deleteAll and reloaded two batches
C34_Witness ==
  \E r, q \in 1..MaxRequests :
    /\ requests[q].deleteAll = "error"
    /\ requests[q].status = 500
    /\ requests[q].calls = <<"deleteAll">>
    /\ requests[r].deleteAll = "404"
    /\ requests[r].status = 200
    /\ Len(requests[r].calls) = 3

\* C35: when several POST /api/reset requests run concurrently against an
\* unchanged vectors.json and all complete successfully, then in every
\* interleaving of their deleteAll and batch-upsert calls the index finally holds
\* exactly one vector for every chunk id of vectors.json
C35_ConcurrentResets ==
  (\A r \in 1..MaxRequests : requests[r].pc = "ok" /\ requests[r].status = 200) =>
    /\ \A j \in 1..Len(vectorsJson) :
         Cardinality({v \in store : v.id = NatToStr(vectorsJson[j].id)}) = 1
    /\ Cardinality(store) = Len(vectorsJson)

\* C35 witness: all requests succeeded on several batches, one of them with
\* another request's deleteAll served under its upsert loop
C35_Witness ==
  /\ MaxRequests > 1
  /\ \A r \in 1..MaxRequests : requests[r].pc = "ok" /\ Len(requests[r].calls) = 3
  /\ \E r \in 1..MaxRequests : requests[r].overtaken
  /\ Cardinality(store) = batchSize + ExtraChunks

\* C37: chunkNormally with the default maxSize 800 and overlap 100 terminates
\* for every finite text: the start position strictly increases on every loop
\* iteration, and every produced chunk has at most 801 characters and is
\* non-empty
C37_ChunkNormally ==
  /\ [][(normal.pc = "loop" /\ normal'.pc = "loop") => normal'.start > normal.start]_vars
  /\ [](\A j \in 1..Len(normal.chunks) :
          /\ Len(normal.chunks[j].text) > 0
          /\ Len(normal.chunks[j].text) <= normalSize + 1)
  /\ (normal.pc = "loop") ~> (normal.pc = "done")

\* C37 witness: chunkNormally returned several chunks, one of 801 characters,
\* of a text longer than two windows
C37_Witness ==
  /\ normal.pc = "done"
  /\ Len(normal.text) > 2 * normalSize
  /\ Len(normal.chunks) > 2
  /\ \E j \in 1..Len(normal.chunks) : Len(normal.chunks[j].text) = normalSize + 1

\* the id "<sanitized documentName>_chunk_<i>" of chunk i of the upload: the
\* name with every character that is no letter and no digit replaced by "_"
C36_IdOf(i) ==
  [k \in 1..Len(upload.documentName) |->
     IF upload.documentName[k] \in Upper \cup Lower \cup Digit
     THEN upload.documentName[k] ELSE "_"]
    \o <<"_","c","h","u","n","k","_">> \o NatToStr(i)

\* C36: in the legacy POST /api/upsert handler all chunk embeddings are
\* generated before the single index.upsert call; if a required field is missing
\* (400) or the embedding of a chunk fails (500) nothing is upserted and the
\* index is unchanged; on success exactly one vector per chunk is upserted, with
\* distinct ids "<sanitized documentName>_chunk_<i>" for i = 0..n-1
C36_LegacyUpsert ==
  /\ [](\A j \in 1..Len(upload.calls) :
          upload.calls[j] = "upsert" =>
            /\ j = Len(upload.calls)
            /\ j = Len(upload.chunks) + 1
            /\ Len(upload.vectors) = Len(upload.chunks))
  /\ [](upload.status = 400 => upload.calls = <<>>)
  /\ [][upload.pc \in {"idle", "embed"} => store' = store]_vars
  /\ [][(upload.status = 0 /\ upload'.status = 200) =>
          LET n == Len(upload.chunks)
          IN  /\ upload.pc = "upsert"
              /\ \A i \in 0..(n - 1) :
                   /\ Cardinality({v \in store' : v.id = C36_IdOf(i)}) = 1
                   /\ \A v \in store' : v.id = C36_IdOf(i) =>
                        /\ v.metadata.chunkIndex = i
                        /\ v.metadata.text = upload.chunks[i + 1].text
                        /\ v \notin store
                   /\ \A j \in 0..(n - 1) : i # j => C36_IdOf(i) # C36_IdOf(j)
              /\ Cardinality(store' \ store) = n
              /\ store \subseteq store']_vars

\* C36 witness: a play of two speeches, under a name with characters that are
\* replaced, was upserted next to the vectors of an earlier run; the first
\* line under a cue of one letter and the lines before it are in no chunk
C36_Witness ==
  /\ upload.status = 200
  /\ upload.calls = <<"embed", "embed", "upsert">>
  /\ C36_IdOf(1) # upload.documentName \o <<"_","c","h","u","n","k","_","1">>
  /\ upload.chunks[1].speaker = <<"H","A","M","L","E","T">>
  /\ upload.chunks[2].speaker = <<"F","I","R","S","T"," ","L","O","R","D">>
  /\ Len(upload.chunks[1].text) = 20
  /\ Cardinality(store) = batchSize + ExtraChunks + 3

====
